---- MODULE Spec2Model ----
(***************************************************************************)
(* Resume analyzer core engine (utils.py, industry_data.py).               *)
(*                                                                         *)
(* The engine is a library of pure functions over text and static tables.  *)
(* The state is one call in flight: the function called (fn), its          *)
(* arguments (input) and, once the function has run, its result (output)   *)
(* with the return statement that produced it (via) and the values of the  *)
(* function's local variables at that point (locals).                      *)
(* Texts are strings; Python's str operations (lower, strip, in, find,     *)
(* count, startswith, slicing) are modelled character by character.        *)
(***************************************************************************)
EXTENDS Integers, Sequences, FiniteSets, TLC

VARIABLES fn, input, output, via, locals

vars == <<fn, input, output, via, locals>>

\* ------------------------------------------------------------------------
\* Bounds of the model
\* ------------------------------------------------------------------------

\* largest number of fragments concatenated into a text given to extract_skills
MaxSkillFrags == 3

\* largest number of fragments concatenated into a job description given to detect_job_role
MaxRoleFrags == 3

\* largest number of fragments concatenated into a job description given to
\* extract_job_requirements
MaxJobFrags == 2

\* largest number of entries of the resume skill list given to the matching functions
MaxResumeSkills == 2

\* largest number of entries of the required skill list given to the matching functions
MaxRequiredSkills == 3

\* largest length of a resume text given to analyze_resume_quality
MaxTextLength == 800

\* largest number of entries of the skill list given to analyze_resume_quality
MaxQualitySkills == 12

\* largest experience given to analyze_resume_quality
MaxExperience == 5

\* largest size of an integer experience given to predict_salary
MaxSalaryExperience == 31

\* largest number of fragments concatenated into a text given to the extraction,
\* keyword density and readability functions
MaxExtractionFrags == 2

\* largest number of documents uploaded to the batch comparison
MaxBatchFiles == 3

\* largest number of entries of a skill list given to get_interview_readiness_score
MaxReadinessSkills == 10

\* largest number of required skills of a call that is made in two runs of the program
MaxRerunSkills == 4

\* largest number of entries of a required skill list given to get_skill_gaps
MaxGapSkills == 2

\* largest number of engine calls in a session
MaxCalls == 2

\* ------------------------------------------------------------------------
\* Python values
\* ------------------------------------------------------------------------

None == [tag |-> "None"]

Str(s) == [tag |-> "str", s |-> s]

List(l) == [tag |-> "list", l |-> l]

Tuple(t) == [tag |-> "tuple", t |-> t]

Number(n) == [tag |-> "number", n |-> n]

IsStr(v) == v.tag = "str"

\* the result slot before the function has returned
Pending == [tag |-> "pending"]

\* ------------------------------------------------------------------------
\* Strings
\* ------------------------------------------------------------------------

UpperChars == "ABCDEFGHIJKLMNOPQRSTUVWXYZ"

LowerChars == "abcdefghijklmnopqrstuvwxyz"

DigitChars == "0123456789"

\* the characters of the model's texts in code-point order
CharOrder == "\t\n !#$%&'()*+,-./0123456789:;<=>?@ABCDEFGHIJKLMNOPQRSTUVWXYZ[]^_abcdefghijklmnopqrstuvwxyz{|}~"

CharAt(s, i) == SubSeq(s, i, i)

CharsOf(s) == {CharAt(s, i) : i \in 1..Len(s)}

UpperSet == CharsOf(UpperChars)

LowerSet == CharsOf(LowerChars)

DigitSet == CharsOf(DigitChars)

WhiteSet == {" ", "\n", "\t"}

LowerOf == [c \in UpperSet |-> CharAt(LowerChars, CHOOSE i \in 1..26 : CharAt(UpperChars, i) = c)]

UpperOf == [c \in LowerSet |-> CharAt(UpperChars, CHOOSE i \in 1..26 : CharAt(LowerChars, i) = c)]

Ord == [c \in CharsOf(CharOrder) |-> CHOOSE i \in 1..Len(CharOrder) : CharAt(CharOrder, i) = c]

Min(S) == CHOOSE x \in S : \A y \in S : x <= y

Max(S) == CHOOSE x \in S : \A y \in S : x >= y

RECURSIVE Lower(_)
\* str.lower()
Lower(s) ==
    IF Len(s) = 0 THEN ""
    ELSE IF Len(s) = 1 THEN (IF s \in UpperSet THEN LowerOf[s] ELSE s)
    ELSE LET h == Len(s) \div 2
         IN Lower(SubSeq(s, 1, h)) \o Lower(SubSeq(s, h + 1, Len(s)))

\* str.strip()
Strip(s) ==
    LET keep == {i \in 1..Len(s) : CharAt(s, i) \notin WhiteSet}
    IN IF keep = {} THEN "" ELSE SubSeq(s, Min(keep), Max(keep))

\* the positions at which p occurs in s
Occurrences(s, p) == {i \in 1..(Len(s) - Len(p) + 1) : SubSeq(s, i, i + Len(p) - 1) = p}

\* p in s
Contains(s, p) == \E i \in 1..(Len(s) - Len(p) + 1) : SubSeq(s, i, i + Len(p) - 1) = p

\* s.startswith(p)
StartsWith(s, p) == Len(p) <= Len(s) /\ SubSeq(s, 1, Len(p)) = p

\* s.endswith(p)
EndsWith(s, p) == Len(p) <= Len(s) /\ SubSeq(s, Len(s) - Len(p) + 1, Len(s)) = p

\* a < b on str: code-point order, a proper prefix first
StrLess(a, b) ==
    LET n == IF Len(a) < Len(b) THEN Len(a) ELSE Len(b)
        d == {i \in 1..n : CharAt(a, i) # CharAt(b, i)}
    IN IF d = {} THEN Len(a) < Len(b)
       ELSE Ord[CharAt(a, Min(d))] < Ord[CharAt(b, Min(d))]

RECURSIVE Sorted(_)
\* sorted(list(S)) of a set of str
Sorted(S) ==
    IF S = {} THEN <<>>
    ELSE LET m == CHOOSE x \in S : \A y \in S : x = y \/ StrLess(x, y)
         IN <<m>> \o Sorted(S \ {m})

Range(q) == {q[i] : i \in 1..Len(q)}

RECURSIVE Concat(_)
\* the fragments of q joined into one text
Concat(q) == IF Len(q) = 0 THEN "" ELSE Head(q) \o Concat(Tail(q))

\* the sequences over S of length 0..n
SeqsUpTo(S, n) == UNION {[1..k -> S] : k \in 0..n}

\* ------------------------------------------------------------------------
\* Static tables (industry_data.py)
\* ------------------------------------------------------------------------

\* keys of TECHNICAL_SKILLS, in the order of the dict
TECHNICAL_SKILLS ==
    << "Python", "JavaScript", "Java", "TypeScript", "SQL", "C++", "C#", "Go", "Rust",
       "React", "Vue", "Angular", "HTML", "CSS", "Tailwind CSS", "Next.js",
       "Node.js", "Django", "Flask", "Spring Boot", "FastAPI", "MongoDB",
       "PostgreSQL", "MySQL", "Redis",
       "AWS", "Azure", "Google Cloud", "Docker", "Kubernetes", "Terraform",
       "Ansible", "Jenkins", "GitLab", "GitHub",
       "Machine Learning", "Deep Learning", "TensorFlow", "PyTorch", "LLM",
       "Generative AI", "Computer Vision", "NLP",
       "Pandas", "NumPy", "Spark", "Hadoop", "Airflow", "Kafka", "dbt",
       "Git", "REST API", "GraphQL", "Microservices", "System Design",
       "Swift", "Kotlin", "Agile", "iOS", "Android" >>

\* keys of SOFT_SKILLS
SOFT_SKILLS ==
    << "Communication", "Leadership", "Problem Solving", "Teamwork",
       "Project Management", "Critical Thinking", "Adaptability", "Creativity",
       "Time Management", "Mentoring", "Negotiation", "Strategic Thinking" >>

\* keys of CREATIVE_SKILLS
CREATIVE_SKILLS ==
    << "Premiere Pro", "After Effects", "DaVinci Resolve", "Final Cut Pro",
       "Video Editing", "Motion Graphics", "Color Grading", "Photoshop",
       "Illustrator", "Figma", "Adobe XD", "Canva", "Graphic Design", "UI Design",
       "UX Design", "Content Writing", "Copywriting", "SEO", "Google Analytics",
       "Social Media Marketing", "Digital Marketing", "Email Marketing",
       "Video Production", "Cinematography", "Sound Design", "3D Modeling",
       "Blender", "Documentation", "Technical Writing" >>

\* SKILL_ALIASES, in the order of the dict
SKILL_ALIASES ==
    << [key |-> "python", aliases |-> <<"py", "python3", "python 3">>],
       [key |-> "javascript", aliases |-> <<"js", "node", "nodejs">>],
       [key |-> "typescript", aliases |-> <<"ts">>],
       [key |-> "c++", aliases |-> <<"cpp", "c plus plus">>],
       [key |-> "c#", aliases |-> <<"csharp", "c sharp">>],
       [key |-> "sql", aliases |-> <<"mysql", "postgresql", "sqlite">>],
       [key |-> "react", aliases |-> <<"reactjs", "react.js">>],
       [key |-> "aws", aliases |-> <<"amazon web services", "amazon aws">>],
       [key |-> "gcp", aliases |-> <<"google cloud", "google cloud platform">>],
       [key |-> "ml", aliases |-> <<"machine learning", "ml/ai">>],
       [key |-> "nlp", aliases |-> <<"natural language processing">>],
       [key |-> "cicd", aliases |-> <<"ci/cd", "continuous integration", "continuous deployment">>],
       [key |-> "rest", aliases |-> <<"rest api", "restful">>],
       [key |-> "oop", aliases |-> <<"object oriented programming">>] >>

\* ------------------------------------------------------------------------
\* Normalization and alias resolution
\* ------------------------------------------------------------------------

\* normalize_skill
NormalizeSkill(skill) == Strip(Lower(skill))

\* expand_skill_with_aliases without its second loop: an alias is not resolved back
\* to its main skill
ExpandSkillWithAliasesKeysOnly(skill) ==
    LET skill_norm == NormalizeSkill(skill)
        exact == {i \in 1..Len(SKILL_ALIASES) : SKILL_ALIASES[i].key = skill_norm}
    IN IF exact # {}
       THEN <<skill_norm>> \o SKILL_ALIASES[Min(exact)].aliases
       ELSE <<skill_norm>>

\* expand_skill_with_aliases
ExpandSkillWithAliases(skill) ==
    LET skill_norm == NormalizeSkill(skill)
        exact == {i \in 1..Len(SKILL_ALIASES) : SKILL_ALIASES[i].key = skill_norm}
        listed == {i \in 1..Len(SKILL_ALIASES) : skill_norm \in Range(SKILL_ALIASES[i].aliases)}
    IN IF exact # {}
       THEN <<skill_norm>> \o SKILL_ALIASES[Min(exact)].aliases
       ELSE IF listed # {}
       THEN <<SKILL_ALIASES[Min(listed)].key>> \o SKILL_ALIASES[Min(listed)].aliases
       ELSE <<skill_norm>>

\* ------------------------------------------------------------------------
\* Skill extraction
\* ------------------------------------------------------------------------

\* the if/elif/elif chain of extract_skills' alias loop, for one alias
AliasMatches(alias, skill_norm, text_lower) ==
    IF alias # skill_norm /\ Contains(" " \o text_lower \o " ", " " \o alias \o " ")
    THEN TRUE
    ELSE IF Contains(text_lower, " " \o alias) \/ StartsWith(text_lower, alias)
    THEN TRUE
    ELSE EndsWith(text_lower, " " \o alias)

\* the alias loop of extract_skills for one candidate: does any alias match
AnyAliasMatches(expanded, skill_norm, text_lower) ==
    \E i \in 1..Len(expanded) : AliasMatches(expanded[i], skill_norm, text_lower)

\* the direct test and the alias loop of extract_skills for one normalized candidate
NormDetected(skill_norm, text_lower) ==
    \/ Contains(text_lower, skill_norm)
    \/ AnyAliasMatches(ExpandSkillWithAliases(skill_norm), skill_norm, text_lower)

\* one turn of extract_skills' loop: is the candidate skill added to detected_skills
SkillDetected(skill, text_lower) == NormDetected(NormalizeSkill(skill), text_lower)

\* detected_skills of extract_skills for a str text and a list of candidates
DetectedSkills(text, all_skills) ==
    LET text_lower == Lower(text)
    IN {skill \in Range(all_skills) : SkillDetected(skill, text_lower)}

\* extract_skills(text, skills)
extract_skills(text, skills) ==
    IF ~IsStr(text) \/ text.s = "" THEN <<>>
    ELSE LET all_skills == IF skills = None THEN TECHNICAL_SKILLS \o SOFT_SKILLS
                           ELSE skills.l
         IN Sorted(DetectedSkills(text.s, all_skills))

\* ------------------------------------------------------------------------
\* Job role detection
\* ------------------------------------------------------------------------

\* exact_phrases_non_tech of detect_job_role, in the order of the dict
exact_phrases_non_tech ==
    << [role |-> "Digital Marketing", phrases |->
          << "digital marketing", "digital marketer", "digital markiting", "digital markting",
             "marketing specialist", "performance marketing", "growth marketing", "online marketing",
             "digital marketing manager", "dm manager", "seo specialist", "ppc specialist",
             "we are hiring for digital marketing", "job for digital marketing", "role: digital marketing" >>],
       [role |-> "Video Editor", phrases |->
          << "video editor", "video editing", "video edit", "we are hiring video editor", "looking for video editor" >>],
       [role |-> "Graphic Designer", phrases |-> << "graphic designer", "graphic design", "visual designer" >>],
       [role |-> "Content Writer", phrases |-> << "content writer", "content writing", "content creator", "copywriter" >>],
       [role |-> "Social Media Manager", phrases |->
          << "social media manager", "social media specialist", "smm ", "social media marketing",
             "social media coordinator", "community manager" >>],
       [role |-> "UX Designer", phrases |-> << "ux designer", "ux design", "user experience designer" >>],
       [role |-> "UI Designer", phrases |-> << "ui designer", "ui design", "user interface designer" >>],
       [role |-> "Motion Graphics Designer", phrases |-> << "motion graphics", "motion designer", "motion graphics designer" >>],
       [role |-> "Video Producer", phrases |-> << "video producer", "video production" >>] >>

\* exact_phrases_tech of detect_job_role, in the order of the dict
exact_phrases_tech ==
    << [role |-> "Product Manager", phrases |-> << "product manager", "product management", "pm role", "technical product manager" >>],
       [role |-> "Project Manager", phrases |-> << "project manager", "project management", "it project manager" >>],
       [role |-> "Business Analyst", phrases |-> << "business analyst", "ba role", "business analysis" >>],
       [role |-> "Scrum Master", phrases |-> << "scrum master", "agile coach", "scrum master role" >>],
       [role |-> "DevOps Engineer", phrases |-> << "devops engineer", "dev ops engineer" >>],
       [role |-> "Cloud Architect", phrases |-> << "cloud architect", "solutions architect" >>],
       [role |-> "Data Scientist", phrases |-> << "data scientist" >>],
       [role |-> "Data Engineer", phrases |-> << "data engineer" >>],
       [role |-> "Data Analyst", phrases |-> << "data analyst", "bi analyst", "business intelligence analyst" >>],
       [role |-> "Backend Developer", phrases |-> << "backend developer", "back-end developer", "backend engineer" >>],
       [role |-> "Frontend Developer", phrases |-> << "frontend developer", "front-end developer", "frontend engineer" >>],
       [role |-> "Full Stack Developer", phrases |-> << "full stack developer", "fullstack developer", "full stack engineer" >>],
       [role |-> "iOS Developer", phrases |-> << "ios developer", "ios engineer", "swift developer", "apple ios" >>],
       [role |-> "Android Developer", phrases |-> << "android developer", "android engineer", "kotlin developer", "android app" >>],
       [role |-> ".NET Developer", phrases |-> << ".net developer", ".net engineer", "c# developer", "asp.net developer" >>],
       [role |-> "QA Engineer", phrases |-> << "qa engineer", "quality assurance engineer", "test engineer" >>],
       [role |-> "Security Engineer", phrases |-> << "security engineer", "cybersecurity engineer" >>],
       [role |-> "Machine Learning Engineer", phrases |-> << "machine learning engineer", "ml engineer", "ai engineer" >>],
       [role |-> "Technical Writer", phrases |-> << "technical writer", "technical writing", "documentation writer" >>],
       [role |-> "Software Engineer", phrases |-> << "software engineer", "software developer", "application developer" >>] >>

\* role_patterns of detect_job_role, in the order of the dict
role_patterns ==
    << [role |-> "DevOps Engineer", phrases |->
          << "devops", "dev-ops", "infrastructure engineer", "site reliability engineer",
             "sre ", "kubernetes", "docker", "terraform", "ci/cd", "cicd",
             "deployment engineer", "linux engineer" >>],
       [role |-> "Cloud Architect", phrases |->
          << "cloud architect", "cloud infrastructure", "aws architect", "azure architect",
             "gcp architect", "cloud solutions" >>],
       [role |-> "Backend Developer", phrases |->
          << "backend", "back-end", "api development", "server-side", "server side",
             "django developer", "flask developer", "nodejs developer", "node.js developer",
             "spring developer", "fastapi developer", "rest api", "microservices" >>],
       [role |-> "Frontend Developer", phrases |->
          << "frontend", "front-end", "react developer", "vue developer", "angular developer",
             "javascript developer", "typescript developer", "web developer", "frontend engineer" >>],
       [role |-> "Full Stack Developer", phrases |->
          << "full stack", "fullstack", "full-stack", "full stack engineer" >>],
       [role |-> "Machine Learning Engineer", phrases |->
          << "machine learning", "ml engineer", "deep learning", "neural network",
             "tensorflow", "pytorch", "nlp engineer", "computer vision", "ai/ml" >>],
       [role |-> "Data Scientist", phrases |->
          << "data scientist", "statistical analysis", "predictive model", "machine learning model" >>],
       [role |-> "Data Engineer", phrases |->
          << "data engineer", "etl engineer", "data pipeline", "big data", "spark",
             "hadoop", "data warehouse", "data architecture" >>],
       [role |-> "Data Analyst", phrases |->
          << "data analyst", "bi analyst", "business intelligence", "tableau", "power bi",
             "analytics engineer", "sql analyst" >>],
       [role |-> "QA Engineer", phrases |->
          << "qa engineer", "quality assurance", "test engineer", "test automation",
             "automated tester", "selenium", "quality engineer" >>],
       [role |-> "Security Engineer", phrases |->
          << "security engineer", "cybersecurity", "infosec", "penetration tester", "security architect" >>],
       [role |-> "Product Manager", phrases |->
          << "product roadmap", "product strategy", "product owner", "prioritization", "user stories" >>],
       [role |-> "Project Manager", phrases |->
          << "project management", "pm certification", "pmp", "stakeholder management", "project delivery" >>] >>

RECURSIVE CollapseRange(_, _, _)
\* re.sub(r'\s+', ' ', s) on the characters lo..hi of s: a run of whitespace
\* leaves one space, at its first character
CollapseRange(s, lo, hi) ==
    IF lo > hi THEN ""
    ELSE IF lo = hi
    THEN (IF CharAt(s, lo) \in WhiteSet
          THEN (IF lo > 1 /\ CharAt(s, lo - 1) \in WhiteSet THEN "" ELSE " ")
          ELSE CharAt(s, lo))
    ELSE LET h == (lo + hi) \div 2
         IN CollapseRange(s, lo, h) \o CollapseRange(s, h + 1, hi)

\* re.sub(r'\s+', ' ', s)
CollapseWhitespace(s) == CollapseRange(s, 1, Len(s))

\* job_lower of detect_job_role
JobLower(job_description) == CollapseWhitespace(Strip(Lower(job_description)))

\* the non-technical loop's test of one phrase
NonTechPhraseIn(phrase, job_lower) == Contains(job_lower, Strip(phrase))

\* the indices of the non-technical groups one of whose phrases the loop finds
NonTechHits(job_lower) ==
    {g \in 1..Len(exact_phrases_non_tech) :
        \E k \in 1..Len(exact_phrases_non_tech[g].phrases) :
            NonTechPhraseIn(exact_phrases_non_tech[g].phrases[k], job_lower)}

\* the indices of the technical exact-phrase groups one of whose phrases is in the text
TechHits(job_lower) ==
    {g \in 1..Len(exact_phrases_tech) :
        \E k \in 1..Len(exact_phrases_tech[g].phrases) :
            Contains(job_lower, exact_phrases_tech[g].phrases[k])}

\* match_count of one role_patterns group
MatchCount(g, job_lower) ==
    Cardinality({k \in 1..Len(role_patterns[g].phrases) :
                    Contains(job_lower, role_patterns[g].phrases[k])})

\* role_scores: the groups with match_count > 0, each with its count
RoleScores(job_lower) ==
    LET counts == [g \in 1..Len(role_patterns) |-> MatchCount(g, job_lower)]
    IN [g \in {h \in 1..Len(role_patterns) : counts[h] > 0} |-> counts[g]]

\* max(role_scores, key=role_scores.get): the first key, in insertion order,
\* with the largest count
MaxRole(role_scores) ==
    LET best == Max({role_scores[g] : g \in DOMAIN role_scores})
    IN Min({g \in DOMAIN role_scores : role_scores[g] = best})


\* the class [a-z\s] under re.IGNORECASE
TitleClass == LowerSet \cup UpperSet \cup WhiteSet

\* the first position >= i of s that holds no whitespace (Len(s) + 1 if none): where \s* ends
SkipWhite(s, i) == Min({j \in i..(Len(s) + 1) : j = Len(s) + 1 \/ CharAt(s, j) \notin WhiteSet})

\* p occurs in s at position i
OccursAt(s, i, p) == i >= 1 /\ i + Len(p) - 1 <= Len(s) /\ SubSeq(s, i, i + Len(p) - 1) = p

\* a regular expression's search result
NoMatch == [matched |-> FALSE, group |-> ""]

Matched(g) == [matched |-> TRUE, group |-> g]

\* the anchors (?:job title|position|role|we are hiring|looking for|hiring) of the first title pattern
TitleAnchors == <<"job title", "position", "role", "we are hiring", "looking for", "hiring">>

\* (?:\s*\-|\s*\(|\.|$) matches at position j of u
TitleEndAt(u, j) ==
    \/ j = Len(u) + 1
    \/ j <= Len(u) /\ CharAt(u, j) = "."
    \/ LET m == SkipWhite(u, j) IN m <= Len(u) /\ CharAt(u, m) \in {"-", "("}

\* \s*([a-z\s]+?)(?:\s*\-|\s*\(|\.|$) matched at the start of u: the ends the lazy
\* group can have (the group is at least one character, the shortest end wins)
TitleGroupEnds(u) ==
    {j \in 2..(Len(u) + 1) :
        /\ \A x \in 1..(j - 1) : CharAt(u, x) \in TitleClass
        /\ TitleEndAt(u, j)}

\* the text after anchor a at position i and \s*[:\-], or no match there
AfterAnchor(s, i, a) ==
    IF ~OccursAt(s, i, a) THEN NoMatch
    ELSE LET w == SkipWhite(s, i + Len(a))
         IN IF w <= Len(s) /\ CharAt(s, w) \in {":", "-"}
            THEN Matched(SubSeq(s, w + 1, Len(s)))
            ELSE NoMatch

\* the first title pattern matches at position i of s
TitlePattern1At(s, i) ==
    \E k \in 1..Len(TitleAnchors) :
        LET r == AfterAnchor(s, i, TitleAnchors[k])
        IN r.matched /\ TitleGroupEnds(r.group) # {}

\* re.search of
\* (?:job title|position|role|we are hiring|looking for|hiring)\s*[:\-]\s*([a-z\s]+?)(?:\s*\-|\s*\(|\.|$)
\* the leftmost match, its group(1)
TitlePattern1(s) ==
    LET starts == {i \in 1..Len(s) : TitlePattern1At(s, i)}
    IN IF starts = {} THEN NoMatch
       ELSE LET i == Min(starts)
                k == Min({n \in 1..Len(TitleAnchors) : OccursAt(s, i, TitleAnchors[n])})
                u == AfterAnchor(s, i, TitleAnchors[k]).group
                w == SkipWhite(u, 1)
                later == {e \in TitleGroupEnds(u) : e > w}
            IN \* \s* takes all the whitespace and the group starts after it; when
               \* nothing can follow, \s* gives back one whitespace to the group
               Matched(IF later # {} THEN SubSeq(u, w, Min(later) - 1)
                       ELSE SubSeq(u, w - 1, w - 1))

\* re.search of ^([a-z\s]+?)\s*[\-\|]\s*(?:full time|part time|remote)
TitlePattern2(s) ==
    LET stops == {q \in 1..Len(s) : CharAt(s, q) \notin TitleClass}
    IN IF stops = {} THEN NoMatch
       ELSE LET q == Min(stops)
                w == SkipWhite(s, q + 1)
                lead == {n \in 1..(q - 1) : \A x \in (n + 1)..(q - 1) : CharAt(s, x) \in WhiteSet}
            IN IF /\ q >= 2
                  /\ CharAt(s, q) \in {"-", "|"}
                  /\ \E kw \in {"full time", "part time", "remote"} : OccursAt(s, w, kw)
               THEN Matched(SubSeq(s, 1, Min(lead)))
               ELSE NoMatch

\* (?:\s+job|\s+position|\.) matches at position j of s
TitleEnd3At(s, j) ==
    \/ j <= Len(s) /\ CharAt(s, j) = "."
    \/ /\ j <= Len(s)
       /\ CharAt(s, j) \in WhiteSet
       /\ \E kw \in {"job", "position"} : OccursAt(s, SkipWhite(s, j), kw)

\* re.search of ^#?\s*([a-z][a-z\s]{3,40}?)(?:\s+job|\s+position|\.)
TitlePattern3(s) ==
    LET b == IF OccursAt(s, 1, "#") THEN 2 ELSE 1
        g == SkipWhite(s, b)
        ends == {j \in (g + 4)..(g + 41) :
                    /\ j <= Len(s)
                    /\ \A x \in g..(j - 1) : CharAt(s, x) \in TitleClass
                    /\ TitleEnd3At(s, j)}
    IN IF g <= Len(s) /\ CharAt(s, g) \in (LowerSet \cup UpperSet) /\ ends # {}
       THEN Matched(SubSeq(s, g, Min(ends) - 1))
       ELSE NoMatch

\* title_patterns of detect_job_role, each searched in job_lower[:300]
TitlePatterns(s) == <<TitlePattern1(s), TitlePattern2(s), TitlePattern3(s)>>

RECURSIVE TitleRange(_, _, _)
\* str.title() on the characters lo..hi of s: a letter is upper-cased after a
\* non-letter (or at the start) and lower-cased after a letter
TitleRange(s, lo, hi) ==
    IF lo > hi THEN ""
    ELSE IF lo = hi
    THEN LET c == CharAt(s, lo)
             first == lo = 1 \/ CharAt(s, lo - 1) \notin (LowerSet \cup UpperSet)
         IN IF c \in LowerSet /\ first THEN UpperOf[c]
            ELSE IF c \in UpperSet /\ ~first THEN LowerOf[c]
            ELSE c
    ELSE LET h == (lo + hi) \div 2
         IN TitleRange(s, lo, h) \o TitleRange(s, h + 1, hi)

\* str.title()
TitleCase(s) == TitleRange(s, 1, Len(s))

\* the test detect_job_role makes of an extracted title
TitleAccepted(title) ==
    /\ Len(title) >= 4
    /\ Len(title) < 50
    /\ ~Contains(title, "experience")
    /\ ~Contains(title, "description")

\* the loop over title_patterns: the patterns that match with an acceptable title
TitleHits(job_lower) ==
    LET head == SubSeq(job_lower, 1, IF Len(job_lower) < 300 THEN Len(job_lower) ELSE 300)
        ms == TitlePatterns(head)
    IN {[pat |-> p, title |-> Strip(ms[p].group)] : p \in {n \in 1..3 : ms[n].matched /\ TitleAccepted(Strip(ms[n].group))}}

\* detect_job_role with the technical exact phrases checked before the
\* non-technical ones
DetectJobRoleTechFirst(job_description) ==
    IF ~IsStr(job_description) \/ job_description.s = ""
    THEN [role |-> "Software Engineer", via |-> "empty"]
    ELSE LET job_lower == JobLower(job_description.s)
             nt == NonTechHits(job_lower)
             th == TechHits(job_lower)
             rs == RoleScores(job_lower)
             ts == TitleHits(job_lower)
         IN IF th # {} THEN [role |-> exact_phrases_tech[Min(th)].role, via |-> "tech_phrase"]
            ELSE IF nt # {} THEN [role |-> exact_phrases_non_tech[Min(nt)].role, via |-> "non_tech_phrase"]
            ELSE IF DOMAIN rs # {} THEN [role |-> role_patterns[MaxRole(rs)].role, via |-> "keywords"]
            ELSE IF ts # {}
            THEN LET first == CHOOSE t \in ts : \A o \in ts : t.pat <= o.pat
                 IN [role |-> TitleCase(first.title), via |-> "title"]
            ELSE [role |-> "Other Role", via |-> "fallback"]

\* detect_job_role with the keyword scoring run before the technical exact phrases
DetectJobRoleKeywordsFirst(job_description) ==
    IF ~IsStr(job_description) \/ job_description.s = ""
    THEN [role |-> "Software Engineer", via |-> "empty"]
    ELSE LET job_lower == JobLower(job_description.s)
             nt == NonTechHits(job_lower)
             th == TechHits(job_lower)
             rs == RoleScores(job_lower)
             ts == TitleHits(job_lower)
         IN IF nt # {} THEN [role |-> exact_phrases_non_tech[Min(nt)].role, via |-> "non_tech_phrase"]
            ELSE IF DOMAIN rs # {} THEN [role |-> role_patterns[MaxRole(rs)].role, via |-> "keywords"]
            ELSE IF th # {} THEN [role |-> exact_phrases_tech[Min(th)].role, via |-> "tech_phrase"]
            ELSE IF ts # {}
            THEN LET first == CHOOSE t \in ts : \A o \in ts : t.pat <= o.pat
                 IN [role |-> TitleCase(first.title), via |-> "title"]
            ELSE [role |-> "Other Role", via |-> "fallback"]

\* detect_job_role(job_description): the role returned and the return statement
\* that returned it
DetectJobRole(job_description) ==
    IF ~IsStr(job_description) \/ job_description.s = ""
    THEN [role |-> "Software Engineer", via |-> "empty"]
    ELSE LET job_lower == JobLower(job_description.s)
             nt == NonTechHits(job_lower)
             th == TechHits(job_lower)
             rs == RoleScores(job_lower)
             ts == TitleHits(job_lower)
         IN IF nt # {} THEN [role |-> exact_phrases_non_tech[Min(nt)].role, via |-> "non_tech_phrase"]
            ELSE IF th # {} THEN [role |-> exact_phrases_tech[Min(th)].role, via |-> "tech_phrase"]
            ELSE IF DOMAIN rs # {} THEN [role |-> role_patterns[MaxRole(rs)].role, via |-> "keywords"]
            ELSE IF ts # {}
            THEN LET first == CHOOSE t \in ts : \A o \in ts : t.pat <= o.pat
                 IN [role |-> TitleCase(first.title), via |-> "title"]
            ELSE [role |-> "Other Role", via |-> "fallback"]

\* detect_job_role(job_description)
detect_job_role(job_description) == DetectJobRole(job_description).role

\* ------------------------------------------------------------------------
\* Job requirement extraction
\* ------------------------------------------------------------------------

\* requirement_patterns of extract_job_requirements
requirement_patterns ==
    << "required skills:", "must have:", "should have:", "preferred skills:",
       "looking for:", "we need:", "seeking:", "responsibilities:", "qualifications:",
       "required:", "preferred:", "must:", "skills needed:", "technical skills:",
       "you should have:", "you will need:", "requirement", "key skills:", "tools:" >>

\* skill_indicators of extract_job_requirements
skill_indicators ==
    << "experience with", "knowledge of", "fluent in", "skilled in",
       "proficiency", "familiar with", "expertise in", "work with", "proficient in" >>

\* role_defaults of extract_job_requirements
role_defaults ==
    << [role |-> "Backend Developer", skills |-> <<"Python", "Django", "REST API", "PostgreSQL", "AWS", "SQL", "Git">>],
       [role |-> "Frontend Developer", skills |-> <<"React", "JavaScript", "HTML", "CSS", "TypeScript", "REST API", "Git">>],
       [role |-> "Full Stack Developer", skills |-> <<"React", "Node.js", "Python", "SQL", "AWS", "Git", "REST API", "HTML", "CSS">>],
       [role |-> "DevOps Engineer", skills |-> <<"Docker", "Kubernetes", "AWS", "Jenkins", "Terraform", "Linux", "Git", "CI/CD">>],
       [role |-> "Cloud Architect", skills |-> <<"AWS", "Azure", "Google Cloud", "Terraform", "System Design", "Security", "Docker">>],
       [role |-> "Data Scientist", skills |-> <<"Python", "Machine Learning", "SQL", "TensorFlow", "Pandas", "Statistics", "NumPy", "Data Analysis">>],
       [role |-> "Data Engineer", skills |-> <<"Python", "SQL", "Spark", "Hadoop", "AWS", "ETL", "Data Pipelines">>],
       [role |-> "Data Analyst", skills |-> <<"SQL", "Excel", "Tableau", "Python", "Power BI", "Data Analysis", "Statistics">>],
       [role |-> "QA Engineer", skills |-> <<"TestNG", "Selenium", "Automation", "Java", "Testing", "Git", "CI/CD">>],
       [role |-> "Security Engineer", skills |-> <<"Linux", "Cybersecurity", "AWS", "Encryption", "Penetration Testing", "Security">>],
       [role |-> "Machine Learning Engineer", skills |-> <<"Python", "Machine Learning", "Deep Learning", "TensorFlow", "PyTorch", "SQL", "Git">>],
       [role |-> "ML Engineer", skills |-> <<"Python", "Machine Learning", "Deep Learning", "TensorFlow", "PyTorch", "SQL">>],
       [role |-> "Software Engineer", skills |-> <<"Python", "JavaScript", "SQL", "Git", "REST API", "Problem Solving">>],
       [role |-> "Video Editor", skills |-> <<"Premiere Pro", "After Effects", "Video Editing", "Motion Graphics", "DaVinci Resolve", "Color Grading">>],
       [role |-> "Graphic Designer", skills |-> <<"Photoshop", "Illustrator", "Graphic Design", "Figma", "Canva", "UI Design">>],
       [role |-> "Content Writer", skills |-> <<"Content Writing", "Copywriting", "SEO", "Communication">>],
       [role |-> "Digital Marketing", skills |-> <<"Digital Marketing", "SEO", "Social Media Marketing", "Content Writing", "Google Analytics", "Email Marketing">>],
       [role |-> "Social Media Manager", skills |-> <<"Social Media Marketing", "Content Writing", "Communication", "Canva">>],
       [role |-> "Product Manager", skills |-> <<"Project Management", "Communication", "Problem Solving", "SQL", "Data Analysis", "Agile">>],
       [role |-> "Project Manager", skills |-> <<"Project Management", "Communication", "Leadership", "Agile", "Problem Solving">>],
       [role |-> "Business Analyst", skills |-> <<"SQL", "Excel", "Data Analysis", "Communication", "Problem Solving">>],
       [role |-> "Scrum Master", skills |-> <<"Agile", "Project Management", "Communication", "Leadership">>],
       [role |-> "iOS Developer", skills |-> <<"Swift", "iOS", "Git", "REST API", "Problem Solving">>],
       [role |-> "Android Developer", skills |-> <<"Kotlin", "Java", "Git", "REST API", "Problem Solving">>],
       [role |-> ".NET Developer", skills |-> <<"C#", "SQL", "REST API", "Git", "Problem Solving">>],
       [role |-> "Technical Writer", skills |-> <<"Content Writing", "Communication", "Documentation", "Technical Writing">>],
       [role |-> "UX Designer", skills |-> <<"UX Design", "Figma", "User Research", "Wireframing", "Prototyping">>],
       [role |-> "UI Designer", skills |-> <<"UI Design", "Figma", "Photoshop", "Illustrator", "Design Systems">>],
       [role |-> "Motion Graphics Designer", skills |-> <<"After Effects", "Motion Graphics", "Premiere Pro", "Cinematography">>],
       [role |-> "Video Producer", skills |-> <<"Video Production", "Premiere Pro", "Video Editing", "Project Management">>] >>

\* the section window and the indicator window of extract_job_requirements
SectionWindow == 500

IndicatorWindow == 150

\* the least number of characters of a job description, trimmed
MinJobLength == 10

\* below this many detected skills the indicator phrases are searched
IndicatorThreshold == 5

\* below this many detected skills a known role's defaults are merged
DefaultsThreshold == 6

\* extract_skills on a str, as a set
SkillsIn(text, all_skills) == Range(extract_skills(Str(text), List(all_skills)))

\* requirement_sections: for each pattern in the text, the characters after its
\* first occurrence
RequirementSections(job_description) ==
    LET job_lower == Lower(job_description)
    IN {LET start == Min(Occurrences(job_lower, requirement_patterns[k])) - 1 + Len(requirement_patterns[k])
            end == IF start + SectionWindow < Len(job_description)
                   THEN start + SectionWindow ELSE Len(job_description)
        IN SubSeq(job_description, start + 1, end) :
        k \in {n \in 1..Len(requirement_patterns) : Contains(job_lower, requirement_patterns[n])}}

RECURSIVE SplitFrom(_, _, _)
\* s.split(sep) from position from on: the pieces between the occurrences of sep,
\* taken left to right without overlap
SplitFrom(s, sep, from) ==
    LET next == {i \in Occurrences(s, sep) : i >= from}
    IN IF next = {} THEN <<SubSeq(s, from, Len(s))>>
       ELSE <<SubSeq(s, from, Min(next) - 1)>> \o SplitFrom(s, sep, Min(next) + Len(sep))

\* s.split(sep)
Split(s, sep) == SplitFrom(s, sep, 1)

\* s[:n]
Prefix(s, n) == SubSeq(s, 1, IF Len(s) < n THEN Len(s) ELSE n)

\* the pieces of text following the skill indicators, cut to the indicator window
IndicatorPieces(job_lower) ==
    UNION {LET parts == Split(job_lower, skill_indicators[k])
           IN {Prefix(parts[i], IndicatorWindow) : i \in 2..Len(parts)} :
           k \in 1..Len(skill_indicators)}

\* all_skills of extract_job_requirements
AllSkills == TECHNICAL_SKILLS \o SOFT_SKILLS \o CREATIVE_SKILLS

\* first pass: the skills found in the requirement sections
FromSections(job_description) ==
    UNION {SkillsIn(sec, AllSkills) : sec \in RequirementSections(job_description)}

\* second pass: the whole text is searched when the sections gave nothing
WithWholeText(detected_skills, job_description) ==
    IF detected_skills = {} THEN SkillsIn(job_description, AllSkills) ELSE detected_skills

\* third pass: with fewer detected skills than the threshold, the text after each
\* skill indicator is searched too
WithIndicators(detected_skills, job_description) ==
    IF Cardinality(detected_skills) < IndicatorThreshold
    THEN detected_skills \cup
         UNION {SkillsIn(piece, AllSkills) : piece \in IndicatorPieces(Lower(job_description))}
    ELSE detected_skills

\* detected_skills of extract_job_requirements before the role is looked at
ExtractedFromText(job_description) ==
    WithIndicators(WithWholeText(FromSections(job_description), job_description), job_description)

\* the roles of role_defaults
DefaultRoles == {role_defaults[i].role : i \in 1..Len(role_defaults)}

\* role_defaults[role]
DefaultsOf(role) == Range((CHOOSE d \in Range(role_defaults) : d.role = role).skills)

\* the last step of extract_job_requirements with the defaults of Software
\* Engineer forced on a role that has no defaults of its own
MergeRoleDefaultsForcingSoftwareEngineer(detected_skills, detected_role) ==
    IF detected_role \in DefaultRoles /\ Cardinality(detected_skills) < DefaultsThreshold
    THEN [skills |-> detected_skills \cup DefaultsOf(detected_role), via |-> "defaults"]
    ELSE IF detected_role \notin DefaultRoles
    THEN [skills |-> detected_skills \cup DefaultsOf("Software Engineer"), via |-> "defaults"]
    ELSE [skills |-> detected_skills, via |-> "extracted"]

\* the last step of extract_job_requirements with the defaults merged up to and
\* including the threshold number of detected skills
MergeRoleDefaultsUpToThreshold(detected_skills, detected_role) ==
    IF detected_role \in DefaultRoles /\ Cardinality(detected_skills) <= DefaultsThreshold
    THEN [skills |-> detected_skills \cup DefaultsOf(detected_role), via |-> "defaults"]
    ELSE IF detected_role \notin DefaultRoles
    THEN (IF detected_skills = {} /\ detected_role # "Other Role"
          THEN [skills |-> detected_skills \cup {detected_role}, via |-> "placeholder"]
          ELSE [skills |-> detected_skills, via |-> "extracted"])
    ELSE [skills |-> detected_skills, via |-> "extracted"]

\* the last step of extract_job_requirements: the defaults of a known role with
\* few detected skills are merged; an unknown role other than the fallback with no
\* detected skill leaves its own name
MergeRoleDefaults(detected_skills, detected_role) ==
    IF detected_role \in DefaultRoles /\ Cardinality(detected_skills) < DefaultsThreshold
    THEN [skills |-> detected_skills \cup DefaultsOf(detected_role), via |-> "defaults"]
    ELSE IF detected_role \notin DefaultRoles
    THEN (IF detected_skills = {} /\ detected_role # "Other Role"
          THEN [skills |-> detected_skills \cup {detected_role}, via |-> "placeholder"]
          ELSE [skills |-> detected_skills, via |-> "extracted"])
    ELSE [skills |-> detected_skills, via |-> "extracted"]

\* the return of extract_job_requirements after the role-default step
Returning(merged, detected_skills, detected_role) ==
    [result |-> Sorted(merged.skills), via |-> merged.via,
     locals |-> [detected_role |-> detected_role, detected_skills |-> detected_skills]]

\* extract_job_requirements from the role-default step on
RoleStep(detected_skills, detected_role) ==
    Returning(MergeRoleDefaults(detected_skills, detected_role), detected_skills, detected_role)

\* extract_job_requirements with the length test made on the untrimmed text
ExtractJobRequirementsUntrimmed(job_description) ==
    IF ~IsStr(job_description) \/ job_description.s = "" \/ Len(job_description.s) < MinJobLength
    THEN [result |-> <<>>, via |-> "too_short", locals |-> <<>>]
    ELSE RoleStep(ExtractedFromText(job_description.s), detect_job_role(job_description))

\* extract_job_requirements(job_description): the list returned, the return
\* statement reached, and detected_role and detected_skills as they were before the
\* role defaults were looked at
ExtractJobRequirements(job_description) ==
    IF ~IsStr(job_description) \/ job_description.s = "" \/ Len(Strip(job_description.s)) < MinJobLength
    THEN [result |-> <<>>, via |-> "too_short", locals |-> <<>>]
    ELSE RoleStep(ExtractedFromText(job_description.s), detect_job_role(job_description))

\* extract_job_requirements(job_description)
extract_job_requirements(job_description) == ExtractJobRequirements(job_description).result

\* ------------------------------------------------------------------------
\* Matching and scoring
\* ------------------------------------------------------------------------

\* SKILL_MULTIPLIERS, the premiums in hundredths (0.12 is 12)
SKILL_MULTIPLIERS ==
    <<[skill |-> "machine learning", multiplier |-> 12],
      [skill |-> "generative ai", multiplier |-> 15],
      [skill |-> "llm", multiplier |-> 13],
      [skill |-> "kubernetes", multiplier |-> 10],
      [skill |-> "aws", multiplier |-> 10],
      [skill |-> "azure", multiplier |-> 9],
      [skill |-> "python", multiplier |-> 8],
      [skill |-> "docker", multiplier |-> 7],
      [skill |-> "go", multiplier |-> 8],
      [skill |-> "rust", multiplier |-> 8],
      [skill |-> "system design", multiplier |-> 10],
      [skill |-> "architecture", multiplier |-> 9],
      [skill |-> "leadership", multiplier |-> 7],
      [skill |-> "javascript", multiplier |-> 5],
      [skill |-> "java", multiplier |-> 5],
      [skill |-> "sql", multiplier |-> 4],
      [skill |-> "react", multiplier |-> 6],
      [skill |-> "terraform", multiplier |-> 6],
      [skill |-> "communication", multiplier |-> 3],
      [skill |-> "project management", multiplier |-> 4]>>

\* the default of SKILL_MULTIPLIERS.get(req_norm, 1.0), in hundredths
DefaultMultiplier == 100

\* the 1.0 of (1.0 + multiplier), in hundredths
UnitMultiplier == 100

\* round(numerator / denominator * 100, 2) in hundredths, a tie going to the even
\* hundredth
RoundPercent(numerator, denominator) ==
    LET scaled == 10000 * numerator
        floor == scaled \div denominator
        rest == 2 * (scaled % denominator)
    IN IF rest > denominator \/ (rest = denominator /\ floor % 2 = 1) THEN floor + 1 ELSE floor

\* required_skills: the skills extracted from a str, the entries of a list
RequiredSkills(job_requirements) ==
    IF IsStr(job_requirements) THEN extract_skills(job_requirements, None)
    ELSE job_requirements.l

\* set(normalize_skill(s) for s in skills)
NormalizedSet(skills) == {NormalizeSkill(skills[i]) : i \in 1..Len(skills)}

RECURSIVE MatchedWithCase(_, _)
\* [s for s in resume_skills if normalize_skill(s) in matched]
MatchedWithCase(resume_skills, matched) ==
    IF resume_skills = <<>> THEN <<>>
    ELSE (IF NormalizeSkill(Head(resume_skills)) \in matched THEN <<Head(resume_skills)>> ELSE <<>>)
         \o MatchedWithCase(Tail(resume_skills), matched)

\* list(S): the elements of a set of str in any of the orders the hashing of str
\* can give
ListsOf(S) == {q \in [1..Cardinality(S) -> S] : Range(q) = S}

\* calculate_match with the percentage taken over the entries of the required
\* list instead of over the set of its normalized skills
CalculateMatchOverList(resume_skills, required_skills, missing_order) ==
    IF required_skills = <<>>
    THEN [percentage |-> 0, matched |-> <<>>, missing |-> <<>>]
    ELSE [percentage |-> RoundPercent(Cardinality(NormalizedSet(resume_skills) \cap NormalizedSet(required_skills)),
                                      Len(required_skills)),
          matched |-> MatchedWithCase(resume_skills,
                                      NormalizedSet(resume_skills) \cap NormalizedSet(required_skills)),
          missing |-> missing_order]

\* calculate_match with only the first resume entry of each normalized skill kept
\* in the matched list
CalculateMatchFirstEntryOnly(resume_skills, required_skills, missing_order) ==
    IF required_skills = <<>>
    THEN [percentage |-> 0, matched |-> <<>>, missing |-> <<>>]
    ELSE [percentage |-> RoundPercent(Cardinality(NormalizedSet(resume_skills) \cap NormalizedSet(required_skills)),
                                      Cardinality(NormalizedSet(required_skills))),
          matched |-> SelectSeq(
              [i \in 1..Len(resume_skills) |->
                  IF \E j \in 1..(i - 1) : NormalizeSkill(resume_skills[j]) = NormalizeSkill(resume_skills[i])
                  THEN "" ELSE resume_skills[i]],
              LAMBDA x : x # "" /\ NormalizeSkill(x) \in NormalizedSet(required_skills)),
          missing |-> missing_order]

\* calculate_match with the matched list taken by the names as they are written
\* in the required list instead of by their normalized forms
CalculateMatchByWrittenName(resume_skills, required_skills, missing_order) ==
    IF required_skills = <<>>
    THEN [percentage |-> 0, matched |-> <<>>, missing |-> <<>>]
    ELSE [percentage |-> RoundPercent(Cardinality(NormalizedSet(resume_skills) \cap NormalizedSet(required_skills)),
                                      Cardinality(NormalizedSet(required_skills))),
          matched |-> SelectSeq(resume_skills, LAMBDA s : s \in Range(required_skills)),
          missing |-> missing_order]

\* calculate_match from required_skills on, the list made of the missing set
\* being missing_order
CalculateMatch(resume_skills, required_skills, missing_order) ==
    IF required_skills = <<>>
    THEN [percentage |-> 0, matched |-> <<>>, missing |-> <<>>]
    ELSE [percentage |-> RoundPercent(Cardinality(NormalizedSet(resume_skills) \cap NormalizedSet(required_skills)),
                                      Cardinality(NormalizedSet(required_skills))),
          matched |-> MatchedWithCase(resume_skills,
                                      NormalizedSet(resume_skills) \cap NormalizedSet(required_skills)),
          missing |-> missing_order]

\* the orders list(missing) can have
MissingOrders(resume_skills, required_skills) ==
    ListsOf(NormalizedSet(required_skills) \ NormalizedSet(resume_skills))

\* SKILL_MULTIPLIERS.get(req_norm, 1.0)
MultiplierOf(req_norm) ==
    IF \E i \in 1..Len(SKILL_MULTIPLIERS) : SKILL_MULTIPLIERS[i].skill = req_norm
    THEN SKILL_MULTIPLIERS[CHOOSE i \in 1..Len(SKILL_MULTIPLIERS) : SKILL_MULTIPLIERS[i].skill = req_norm].multiplier
    ELSE DefaultMultiplier

\* weight = (1.0 + multiplier) * 10, in tenths
WeightOf(req_skill) == UnitMultiplier + MultiplierOf(NormalizeSkill(req_skill))

RECURSIVE TotalWeight(_)
\* total_weight after the loop over required_skills
TotalWeight(required_skills) ==
    IF required_skills = <<>> THEN 0
    ELSE WeightOf(Head(required_skills)) + TotalWeight(Tail(required_skills))

RECURSIVE MatchedWeight(_, _)
\* matched_weight after the loop over required_skills
MatchedWeight(required_skills, resume_norm) ==
    IF required_skills = <<>> THEN 0
    ELSE (IF NormalizeSkill(Head(required_skills)) \in resume_norm
          THEN WeightOf(Head(required_skills)) ELSE 0)
         + MatchedWeight(Tail(required_skills), resume_norm)

\* calculate_weighted_match_score from required_skills on, in hundredths
CalculateWeightedMatchScore(resume_skills, required_skills) ==
    IF required_skills = <<>> THEN 0
    ELSE IF TotalWeight(required_skills) = 0 THEN 0
    ELSE RoundPercent(MatchedWeight(required_skills, NormalizedSet(resume_skills)),
                      TotalWeight(required_skills))

\* calculate_weighted_match_score(resume_skills, job_requirements)
calculate_weighted_match_score(resume_skills, job_requirements) ==
    CalculateWeightedMatchScore(resume_skills.l, RequiredSkills(job_requirements))

\* ------------------------------------------------------------------------
\* Resume quality
\* ------------------------------------------------------------------------

\* QUALITY_RUBRIC
QUALITY_RUBRIC ==
    [length |-> [points |-> 15, excellent |-> 800, good |-> 600, acceptable |-> 400],
     skills_count |-> [points |-> 15, excellent |-> 12, good |-> 8, acceptable |-> 5],
     experience |-> [points |-> 20, excellent |-> 5, good |-> 3, acceptable |-> 1],
     education |-> [points |-> 15, excellent |-> <<"Master", "PhD">>, good |-> <<"Bachelor">>,
                    acceptable |-> <<"Diploma", "High School">>],
     contact_info |-> [points |-> 10, required |-> <<"email", "phone", "linkedin">>],
     sections |-> [points |-> 10, required |-> <<"experience", "education", "skills">>,
                   preferred |-> <<"projects", "certifications", "achievements">>],
     action_verbs |-> [points |-> 10,
                       verbs |-> <<"Led", "Developed", "Managed", "Created", "Implemented",
                                   "Designed", "Built", "Improved", "Achieved", "Optimized">>],
     quantification |-> [points |-> 5,
                         metric_verbs |-> <<"increased", "reduced", "improved", "grew", "decreased",
                                            "%", "$">>]]

\* \w of the regular expressions
RegexWordSet == LowerSet \cup UpperSet \cup DigitSet \cup {"_"}

\* is there a word character at position i of s
IsWordAt(s, i) == i >= 1 /\ i <= Len(s) /\ CharAt(s, i) \in RegexWordSet

\* \b between the characters i - 1 and i of s
Boundary(s, i) == IsWordAt(s, i - 1) # IsWordAt(s, i)

\* are the characters lo..hi of s all of class
AllIn(s, lo, hi, class) == \A k \in lo..hi : CharAt(s, k) \in class

\* [A-Za-z0-9._%+-]
EmailLocalSet == LowerSet \cup UpperSet \cup DigitSet \cup {".", "_", "%", "+", "-"}

\* [A-Za-z0-9.-]
EmailDomainSet == LowerSet \cup UpperSet \cup DigitSet \cup {".", "-"}

\* [A-Z|a-z]
EmailTldSet == LowerSet \cup UpperSet \cup {"|"}

\* \b[A-Za-z0-9._%+-]+ ending right before the @ at position a
EmailLocalBefore(text, a) ==
    \E j \in 1..(a - 1) : Boundary(text, j) /\ AllIn(text, j, a - 1, EmailLocalSet)

\* [A-Za-z0-9.-]+\.[A-Z|a-z]{2,}\b starting right after the @ at position a
EmailDomainAfter(text, a) ==
    \E d \in (a + 2)..Len(text) :
        /\ CharAt(text, d) = "."
        /\ AllIn(text, a + 1, d - 1, EmailDomainSet)
        /\ \E e \in (d + 2)..Len(text) : AllIn(text, d + 1, e, EmailTldSet) /\ Boundary(text, e + 1)

\* does the email pattern of extract_contact_info match somewhere in text
EmailFound(text) ==
    \E a \in Occurrences(text, "@") : EmailLocalBefore(text, a) /\ EmailDomainAfter(text, a)

\* \d{n} at position i of text
DigitsAt(text, i, n) == i + n - 1 <= Len(text) /\ AllIn(text, i, i + n - 1, DigitSet)

\* [-.]? at position i of text, taking n characters
SeparatorAt(text, i, n) == n = 0 \/ (i <= Len(text) /\ CharAt(text, i) \in {"-", "."})

\* \d{3}[-.]?\d{3}[-.]?\d{4}\b at position j of text
PhoneAt(text, j) ==
    /\ DigitsAt(text, j, 3)
    /\ \E n1 \in {0, 1} :
        /\ SeparatorAt(text, j + 3, n1)
        /\ DigitsAt(text, j + 3 + n1, 3)
        /\ \E n2 \in {0, 1} :
            /\ SeparatorAt(text, j + 6 + n1, n2)
            /\ DigitsAt(text, j + 6 + n1 + n2, 4)
            /\ Boundary(text, j + 10 + n1 + n2)

\* does the phone pattern of extract_contact_info match somewhere in text
PhoneFound(text) == \E j \in 1..Len(text) : Boundary(text, j) /\ PhoneAt(text, j)

\* the literal part of the LinkedIn pattern
LinkedInPrefix == "linkedin.com/in/"

\* does the LinkedIn pattern of extract_contact_info match somewhere in text
\* (re.IGNORECASE)
LinkedInFound(text) ==
    \E i \in Occurrences(Lower(text), LinkedInPrefix) :
        /\ i + Len(LinkedInPrefix) <= Len(text)
        /\ CharAt(text, i + Len(LinkedInPrefix)) \in LowerSet \cup UpperSet \cup DigitSet \cup {"-"}

\* contact_found: the number of entries of extract_contact_info(text) that hold a
\* match
ContactFound(text) ==
    (IF EmailFound(text) THEN 1 ELSE 0) + (IF PhoneFound(text) THEN 1 ELSE 0)
    + (IF LinkedInFound(text) THEN 1 ELSE 0)

RECURSIVE CountAmong(_, _, _)
\* the occurrences of a pattern of length n counted from position from on, left to
\* right without overlap
CountAmong(occurrences, n, from) ==
    IF \A i \in occurrences : i < from THEN 0
    ELSE 1 + CountAmong(occurrences, n, Min({i \in occurrences : i >= from}) + n)

\* s.count(p) for a non-empty p
Count(s, p) == CountAmong(Occurrences(s, p), Len(p), 1)

RECURSIVE CountAll(_, _)
\* sum(s.count(p) for p in patterns)
CountAll(s, patterns) ==
    IF patterns = <<>> THEN 0 ELSE Count(s, Head(patterns)) + CountAll(s, Tail(patterns))

RECURSIVE LowerEach(_)
\* the entries of a list of str lower-cased
LowerEach(list) ==
    IF list = <<>> THEN <<>> ELSE <<Lower(Head(list))>> \o LowerEach(Tail(list))

RECURSIVE Join(_, _)
\* sep.join(list)
Join(sep, list) ==
    IF list = <<>> THEN ""
    ELSE IF Len(list) = 1 THEN Head(list)
    ELSE Head(list) \o sep \o Join(sep, Tail(list))

\* found_sections: the required sections whose lower-cased name is in the
\* lower-cased text
FoundSections(text_lower, required_sections) ==
    SelectSeq(required_sections, LAMBDA section : Contains(text_lower, Lower(section)))

\* [s for s in required_sections if s not in found_sections]
MissingSections(found_sections, required_sections) ==
    SelectSeq(required_sections, LAMBDA section : section \notin Range(found_sections))

\* what one category adds: to total_score, to issues, to analysis, and the value
\* it was scored on
Category(key, value, points, issues, analysis) ==
    [key |-> key, value |-> value, points |-> points, issues |-> issues, analysis |-> analysis]

\* text length quality where only a text below the acceptable length draws an
\* issue
LengthQualityIssueOnlyWhenTooShort(char_count) ==
    IF char_count >= QUALITY_RUBRIC.length.excellent
    THEN Category("Length", char_count, QUALITY_RUBRIC.length.points, <<>>,
                  "Excellent (" \o ToString(char_count) \o " characters)")
    ELSE IF char_count >= QUALITY_RUBRIC.length.good
    THEN Category("Length", char_count, 12, <<>>, "Good (" \o ToString(char_count) \o " characters)")
    ELSE IF char_count >= QUALITY_RUBRIC.length.acceptable
    THEN Category("Length", char_count, 8, <<>>, "Acceptable (" \o ToString(char_count) \o " characters)")
    ELSE Category("Length", char_count, 0,
                  <<"Resume is too brief (" \o ToString(char_count) \o " chars, minimum 400 required)">>,
                  "Too short (" \o ToString(char_count) \o " characters)")

\* 1. text length quality
LengthQuality(char_count) ==
    IF char_count >= QUALITY_RUBRIC.length.excellent
    THEN Category("Length", char_count, QUALITY_RUBRIC.length.points, <<>>,
                  "Excellent (" \o ToString(char_count) \o " characters)")
    ELSE IF char_count >= QUALITY_RUBRIC.length.good
    THEN Category("Length", char_count, 12, <<>>, "Good (" \o ToString(char_count) \o " characters)")
    ELSE IF char_count >= QUALITY_RUBRIC.length.acceptable
    THEN Category("Length", char_count, 8,
                  <<"Resume text is short (" \o ToString(char_count) \o " chars, 800+ recommended)">>,
                  "Acceptable (" \o ToString(char_count) \o " characters)")
    ELSE Category("Length", char_count, 0,
                  <<"Resume is too brief (" \o ToString(char_count) \o " chars, minimum 400 required)">>,
                  "Too short (" \o ToString(char_count) \o " characters)")

\* 2. skills quality
SkillsQuality(skill_count) ==
    IF skill_count >= QUALITY_RUBRIC.skills_count.excellent
    THEN Category("Skills", skill_count, QUALITY_RUBRIC.skills_count.points, <<>>,
                  "Excellent (" \o ToString(skill_count) \o " skills)")
    ELSE IF skill_count >= QUALITY_RUBRIC.skills_count.good
    THEN Category("Skills", skill_count, 12, <<>>, "Good (" \o ToString(skill_count) \o " skills)")
    ELSE IF skill_count >= QUALITY_RUBRIC.skills_count.acceptable
    THEN Category("Skills", skill_count, 8, <<>>, "Acceptable (" \o ToString(skill_count) \o " skills)")
    ELSE Category("Skills", skill_count, 0,
                  <<"Too few skills (" \o ToString(skill_count) \o ", 8+ recommended)">>,
                  "Limited (" \o ToString(skill_count) \o " skills)")

\* experience quality with four points a year in place of the tiers
ExperienceQualityPerYear(experience) ==
    Category("Experience", experience, 4 * experience, <<>>,
             "Good (" \o ToString(experience) \o " years)")

\* 3. experience quality
ExperienceQuality(experience) ==
    IF experience >= QUALITY_RUBRIC.experience.excellent
    THEN Category("Experience", experience, QUALITY_RUBRIC.experience.points, <<>>,
                  "Excellent (" \o ToString(experience) \o "+ years)")
    ELSE IF experience >= QUALITY_RUBRIC.experience.good
    THEN Category("Experience", experience, 15, <<>>, "Good (" \o ToString(experience) \o " years)")
    ELSE IF experience >= QUALITY_RUBRIC.experience.acceptable
    THEN Category("Experience", experience, 10, <<>>, "Entry level (" \o ToString(experience) \o " year)")
    ELSE Category("Experience", experience, 0, <<"Include years of professional experience">>,
                  "No experience found")

\* 4. education quality
EducationQuality(education) ==
    IF education \in Range(QUALITY_RUBRIC.education.excellent)
    THEN Category("Education", education, QUALITY_RUBRIC.education.points, <<>>,
                  "Excellent (" \o education \o ")")
    ELSE IF education \in Range(QUALITY_RUBRIC.education.good)
    THEN Category("Education", education, 12, <<>>, "Good (" \o education \o ")")
    ELSE IF education \in Range(QUALITY_RUBRIC.education.acceptable)
    THEN Category("Education", education, 8, <<>>, "Basic (" \o education \o ")")
    ELSE Category("Education", education, 0, <<"Mention your educational background">>, "Not mentioned")

\* 5. contact information
ContactQuality(contact_found) ==
    IF contact_found >= 3
    THEN Category("Contact", contact_found, 10, <<>>, "Perfect (all info included)")
    ELSE IF contact_found >= 2
    THEN Category("Contact", contact_found, 8, <<>>, "Good (email + phone or LinkedIn)")
    ELSE IF contact_found >= 1
    THEN Category("Contact", contact_found, 5,
                  <<"Add more contact information (email, phone, LinkedIn)">>,
                  "Partial (at least one item)")
    ELSE Category("Contact", contact_found, 0,
                  <<"Add contact information: email, phone, LinkedIn">>, "Missing")

\* 6. resume sections
SectionsQuality(found_sections, required_sections) ==
    IF Len(found_sections) >= 3
    THEN Category("Sections", Len(found_sections), 10, <<>>,
                  "Perfect (" \o Join(", ", found_sections) \o ")")
    ELSE IF Len(found_sections) >= 2
    THEN Category("Sections", Len(found_sections), 7,
                  <<"Add " \o Lower(Head(MissingSections(found_sections, required_sections))) \o " section">>,
                  "Good (" \o Join(", ", found_sections) \o ")")
    ELSE Category("Sections", Len(found_sections), 3,
                  <<"Include Experience, Education, and Skills sections">>,
                  "Incomplete (" \o Join(", ", found_sections) \o ")")

\* 7. action verbs
VerbsQuality(verb_count) ==
    IF verb_count >= 8
    THEN Category("Action Verbs", verb_count, 10, <<>>, "Excellent (" \o ToString(verb_count) \o " verbs)")
    ELSE IF verb_count >= 5
    THEN Category("Action Verbs", verb_count, 7, <<>>, "Good (" \o ToString(verb_count) \o " verbs)")
    ELSE IF verb_count >= 2
    THEN Category("Action Verbs", verb_count, 4,
                  <<"Use more action verbs (led, developed, managed, created, etc.)">>,
                  "Some (" \o ToString(verb_count) \o " verbs)")
    ELSE Category("Action Verbs", verb_count, 0,
                  <<"Start bullet points with strong action verbs">>, "Needs improvement")

\* 8. quantification
MetricsQuality(metrics_found) ==
    IF metrics_found >= 5
    THEN Category("Metrics", metrics_found, 5, <<>>, "Excellent (" \o ToString(metrics_found) \o " metrics)")
    ELSE IF metrics_found >= 2
    THEN Category("Metrics", metrics_found, 3, <<>>, "Good (" \o ToString(metrics_found) \o " metrics)")
    ELSE Category("Metrics", metrics_found, 0,
                  <<"Add metrics/numbers to achievements (e.g., 20% improvement)">>,
                  "Needs more quantification")

\* the eight categories in the order the code scores them
Categories(resume_text, resume_skills, experience, education) ==
    <<LengthQuality(Len(resume_text)),
      SkillsQuality(Len(resume_skills)),
      ExperienceQuality(experience),
      EducationQuality(education),
      ContactQuality(ContactFound(resume_text)),
      SectionsQuality(FoundSections(Lower(resume_text), QUALITY_RUBRIC.sections.required),
                      QUALITY_RUBRIC.sections.required),
      VerbsQuality(CountAll(Lower(resume_text), LowerEach(QUALITY_RUBRIC.action_verbs.verbs))),
      MetricsQuality(CountAll(resume_text, QUALITY_RUBRIC.quantification.metric_verbs))>>

RECURSIVE TotalScore(_)
\* total_score after the categories
TotalScore(categories) ==
    IF categories = <<>> THEN 0 ELSE Head(categories).points + TotalScore(Tail(categories))

RECURSIVE Issues(_)
\* issues after the categories
Issues(categories) ==
    IF categories = <<>> THEN <<>> ELSE Head(categories).issues \o Issues(Tail(categories))

\* analysis after the categories: the entries of the dict in insertion order
Analysis(categories) ==
    [i \in 1..Len(categories) |-> [key |-> categories[i].key, value |-> categories[i].analysis]]

\* the return of analyze_resume_quality after the categories; the categories are
\* kept as the locals of the call
QualityResult(categories) ==
    [score |-> IF TotalScore(categories) > 100 THEN 100 ELSE TotalScore(categories),
     issues |-> Issues(categories),
     analysis |-> Analysis(categories),
     locals |-> categories]

\* analyze_resume_quality(resume_text, resume_skills, experience, education)
AnalyzeResumeQuality(resume_text, resume_skills, experience, education) ==
    IF ~IsStr(resume_text) \/ resume_text.s = ""
    THEN [score |-> 0, issues |-> <<"Resume text is empty">>, analysis |-> <<>>, locals |-> <<>>]
    ELSE QualityResult(Categories(resume_text.s, resume_skills.l, experience, education.s))

\* ------------------------------------------------------------------------
\* Salary prediction
\* ------------------------------------------------------------------------

\* INDUSTRY_SALARY_DATA, the location factors in hundredths
INDUSTRY_SALARY_DATA ==
    <<[industry |-> "Tech", levels |->
        <<[level |-> "Entry Level", min |-> 65, avg |-> 85, max |-> 110,
           locations |-> [SF |-> 150, NYC |-> 140, Seattle |-> 130]],
          [level |-> "Junior", min |-> 95, avg |-> 130, max |-> 170,
           locations |-> [SF |-> 150, NYC |-> 140, Seattle |-> 130]],
          [level |-> "Mid-Level", min |-> 140, avg |-> 180, max |-> 240,
           locations |-> [SF |-> 150, NYC |-> 140, Seattle |-> 130]],
          [level |-> "Senior", min |-> 190, avg |-> 260, max |-> 380,
           locations |-> [SF |-> 150, NYC |-> 140, Seattle |-> 130]],
          [level |-> "Staff+", min |-> 300, avg |-> 400, max |-> 600,
           locations |-> [SF |-> 150, NYC |-> 140, Seattle |-> 130]]>>],
      [industry |-> "Finance", levels |->
        <<[level |-> "Entry Level", min |-> 75, avg |-> 95, max |-> 120],
          [level |-> "Junior", min |-> 120, avg |-> 160, max |-> 210],
          [level |-> "Mid-Level", min |-> 170, avg |-> 220, max |-> 300],
          [level |-> "Senior", min |-> 250, avg |-> 350, max |-> 500]>>],
      [industry |-> "Healthcare Tech", levels |->
        <<[level |-> "Entry Level", min |-> 60, avg |-> 78, max |-> 98],
          [level |-> "Junior", min |-> 85, avg |-> 115, max |-> 150],
          [level |-> "Mid-Level", min |-> 120, avg |-> 160, max |-> 210],
          [level |-> "Senior", min |-> 170, avg |-> 230, max |-> 320]>>],
      [industry |-> "Startup", levels |->
        <<[level |-> "Entry Level", min |-> 70, avg |-> 90, max |-> 120],
          [level |-> "Junior", min |-> 100, avg |-> 135, max |-> 180],
          [level |-> "Mid-Level", min |-> 150, avg |-> 190, max |-> 260],
          [level |-> "Senior", min |-> 210, avg |-> 290, max |-> 400]>>]>>

\* the position of the first digit of s, 0 when it has none
FirstDigit(s) ==
    IF \E i \in 1..Len(s) : CharAt(s, i) \in DigitSet
    THEN Min({i \in 1..Len(s) : CharAt(s, i) \in DigitSet}) ELSE 0

\* the end of the run of digits of s that starts at position i
DigitRunEnd(s, i) ==
    Max({e \in i..Len(s) : \A k \in i..e : CharAt(s, k) \in DigitSet})

\* the value of a decimal digit
DigitValue(c) == (CHOOSE i \in 1..10 : CharAt(DigitChars, i) = c) - 1

RECURSIVE ParseInt(_)
\* int(s) for a non-empty string of digits
ParseInt(s) ==
    IF Len(s) = 1 THEN DigitValue(s)
    ELSE 10 * ParseInt(SubSeq(s, 1, Len(s) - 1)) + DigitValue(CharAt(s, Len(s)))

\* int(match.group(0)) if match else 0, for match = re.search(r'\d+', text)
FirstNumber(text) ==
    IF FirstDigit(text) = 0 THEN 0
    ELSE ParseInt(SubSeq(text, FirstDigit(text), DigitRunEnd(text, FirstDigit(text))))

\* str(v) of a value that is not an int
StrOf(v) == IF IsStr(v) THEN v.s ELSE "None"

\* exp before the cap: an int is taken as it is, of anything else the first
\* number of its text
ExperienceOf(experience_years) ==
    IF experience_years.tag = "number" THEN experience_years.n
    ELSE FirstNumber(StrOf(experience_years))

\* level
LevelOf(exp) ==
    IF exp < 2 THEN "Entry Level"
    ELSE IF exp < 5 THEN "Junior"
    ELSE IF exp < 10 THEN "Mid-Level"
    ELSE IF exp < 15 THEN "Senior"
    ELSE "Staff+"

\* INDUSTRY_SALARY_DATA.get(industry, INDUSTRY_SALARY_DATA['Tech'])
IndustryData(industry) ==
    IF \E i \in 1..Len(INDUSTRY_SALARY_DATA) : INDUSTRY_SALARY_DATA[i].industry = industry
    THEN (CHOOSE d \in Range(INDUSTRY_SALARY_DATA) : d.industry = industry).levels
    ELSE (CHOOSE d \in Range(INDUSTRY_SALARY_DATA) : d.industry = "Tech").levels

\* industry_data.get(level, industry_data['Mid-Level'])
BaseSalary(industry_data, level) ==
    IF \E i \in 1..Len(industry_data) : industry_data[i].level = level
    THEN CHOOSE b \in Range(industry_data) : b.level = level
    ELSE CHOOSE b \in Range(industry_data) : b.level = "Mid-Level"

RECURSIVE PremiumSum(_, _)
\* the premiums of the first n entries of SKILL_MULTIPLIERS whose skill is in
\* resume_norm added up, in hundredths
PremiumSum(resume_norm, n) ==
    IF n = 0 THEN 0
    ELSE PremiumSum(resume_norm, n - 1)
         + (IF SKILL_MULTIPLIERS[n].skill \in resume_norm THEN SKILL_MULTIPLIERS[n].multiplier ELSE 0)

\* skill_multiplier, in hundredths, capped at 2.0
SkillMultiplier(resume_skills) ==
    IF 100 + PremiumSum(NormalizedSet(resume_skills), Len(SKILL_MULTIPLIERS)) > 200 THEN 200
    ELSE 100 + PremiumSum(NormalizedSet(resume_skills), Len(SKILL_MULTIPLIERS))

\* education_mult, in hundredths
EducationMultiplier(education) ==
    IF education = Str("PhD") THEN 115
    ELSE IF education = Str("Master") THEN 110
    ELSE IF education = Str("Bachelor") THEN 105
    ELSE 100

\* exp_mult = 1.0 + (min(exp, 20) * 0.02), in hundredths
ExperienceMultiplier(exp) == 100 + 2 * (IF exp < 20 THEN exp ELSE 20)

\* round(n / d, 0) for n >= 0; the exact half, which the floating-point product
\* puts on either side, goes down or up as up is 0 or 1
RoundWhole(n, d, up) ==
    IF 2 * (n % d) > d THEN n \div d + 1
    ELSE IF 2 * (n % d) = d THEN n \div d + up
    ELSE n \div d

\* base * total_mult in millionths, total_mult = skill_multiplier * education_mult
\* * exp_mult, for a positive exp_mult
SalaryProduct(base, skill_multiplier, education_mult, exp_mult) ==
    base * skill_multiplier * education_mult * exp_mult

\* round(max(floor, base * total_mult), 0) without the floor
SalaryAmountUnfloored(base, floor, skill_multiplier, education_mult, exp_mult, up) ==
    IF exp_mult <= 0 THEN 0
    ELSE RoundWhole(SalaryProduct(base, skill_multiplier, education_mult, exp_mult), 1000000, up)

\* round(max(floor, base * total_mult), 0); an exp_mult of 0 or less makes the
\* product 0 or less, below every floor
SalaryAmount(base, floor, skill_multiplier, education_mult, exp_mult, up) ==
    IF exp_mult <= 0 THEN floor
    ELSE IF SalaryProduct(base, skill_multiplier, education_mult, exp_mult) < floor * 1000000
    THEN floor
    ELSE RoundWhole(SalaryProduct(base, skill_multiplier, education_mult, exp_mult), 1000000, up)

\* the dict returned by predict_salary
SalaryResult(base_salary, skill_multiplier, education_mult, exp_mult, level, ups) ==
    [min |-> SalaryAmount(base_salary.min, 35, skill_multiplier, education_mult, exp_mult, ups[1]),
     avg |-> SalaryAmount(base_salary.avg, 50, skill_multiplier, education_mult, exp_mult, ups[2]),
     max |-> SalaryAmount(base_salary.max, 70, skill_multiplier, education_mult, exp_mult, ups[3]),
     level |-> level,
     currency |-> "USD",
     period |-> "annual (2024-2026)"]

\* predict_salary from the capped exp on
PredictFrom(exp, resume_skills, education, industry, ups) ==
    SalaryResult(BaseSalary(IndustryData(industry), LevelOf(exp)),
                 SkillMultiplier(resume_skills), EducationMultiplier(education),
                 ExperienceMultiplier(exp), LevelOf(exp), ups)

\* predict_salary(experience_years, resume_skills, education, industry); ups
\* says for min, avg and max which way an exact half is rounded
PredictSalary(experience_years, resume_skills, education, industry, ups) ==
    PredictFrom(IF ExperienceOf(experience_years) < 30 THEN ExperienceOf(experience_years) ELSE 30,
                resume_skills.l, education, industry.s, ups)

\* ------------------------------------------------------------------------
\* Experience, education and contact extraction
\* ------------------------------------------------------------------------

\* an exception that leaves the function
Raised(type) == [tag |-> "raise", type |-> type]

\* bool(v) of a Python value
Truthy(v) ==
    IF v.tag = "None" THEN FALSE
    ELSE IF v.tag = "str" THEN v.s # ""
    ELSE IF v.tag = "list" THEN v.l # <<>>
    ELSE IF v.tag = "number" THEN v.n # 0
    ELSE TRUE

\* the year the experience of a four-digit item is counted from
CurrentYear == 2026

\* the longest experience taken from a four-digit item
MaxYearSpan == 60

\* the cap of extract_experience
ExperienceCap == 50

\* the positions where a maximal run of digits of text starts
DigitRunStarts(text) ==
    {i \in 1..Len(text) :
        CharAt(text, i) \in DigitSet /\ (i = 1 \/ CharAt(text, i - 1) \notin DigitSet)}

\* \s+(?:years?|yrs?) at position i of the lower-cased text
YearsAt(text_lower, i) ==
    \E j \in Occurrences(text_lower, "year") \cup Occurrences(text_lower, "yr") :
        j > i /\ AllIn(text_lower, i, j - 1, WhiteSet)

\* the items re.findall gives for (\d+)\s+(?:years?|yrs?): the runs of digits
\* followed by whitespace and the unit
YearItems(text) ==
    {SubSeq(text, i, DigitRunEnd(text, i)) :
        i \in {k \in DigitRunStarts(text) : YearsAt(Lower(text), DigitRunEnd(text, k) + 1)}}

\* the items re.findall gives for (\d+)\+\s+(?:years?|yrs?)
YearPlusItems(text) ==
    {SubSeq(text, i, DigitRunEnd(text, i)) :
        i \in {k \in DigitRunStarts(text) :
                  /\ DigitRunEnd(text, k) < Len(text)
                  /\ CharAt(text, DigitRunEnd(text, k) + 1) = "+"
                  /\ YearsAt(Lower(text), DigitRunEnd(text, k) + 2)}}

\* \s+(?:20\d{2}|19\d{2}) from position i of text on: the positions where it ends
CenturyYearEnds(text, i) ==
    {j + 3 : j \in {k \in Occurrences(text, "20") \cup Occurrences(text, "19") :
                       k > i /\ AllIn(text, i, k - 1, WhiteSet) /\ DigitsAt(text, k + 2, 2)}}

\* the items re.findall gives for (?:since|from)\s+(?:20\d{2}|19\d{2}): the pattern
\* has no group, so an item is the whole matched text
SinceItems(text) ==
    UNION {{SubSeq(text, i, e) : e \in CenturyYearEnds(text, i + Len(word))} :
              <<i, word>> \in {<<k, w>> \in (1..Len(text)) \X {"since", "from"} :
                                  k \in Occurrences(Lower(text), w)}}

\* what one item adds to matches: a four-character item is a year and counts
\* from it, any other item is its number; an item int() cannot read is skipped
ItemExperience(item) ==
    IF ~AllIn(item, 1, Len(item), DigitSet) THEN {}
    ELSE IF Len(item) = 4
    THEN (IF 0 < CurrentYear - ParseInt(item) /\ CurrentYear - ParseInt(item) <= MaxYearSpan
          THEN {CurrentYear - ParseInt(item)} ELSE {})
    ELSE {ParseInt(item)}

\* matches of extract_experience
ExperienceMatches(text) ==
    UNION {ItemExperience(item) : item \in YearItems(text) \cup YearPlusItems(text) \cup SinceItems(text)}

\* min(max(matches), 50) if matches else 0
CappedExperience(matches) ==
    IF matches = {} THEN 0
    ELSE IF Max(matches) < ExperienceCap THEN Max(matches) ELSE ExperienceCap

\* extract_experience(text): re.findall raises TypeError on anything but a str
ExtractExperience(text) ==
    IF ~IsStr(text) THEN Raised("TypeError")
    ELSE Number(CappedExperience(ExperienceMatches(text.s)))

\* education_mapping of extract_education, in the order of the dict; a pattern
\* is a regular expression of literals, '.' and 'x?'
education_mapping ==
    <<[degree |-> "PhD", patterns |-> <<"phd", "doctorate", "doctor of philosophy", "postdoctoral">>],
      [degree |-> "Master", patterns |-> <<"master'?s?", "ms", "m.s", "mba", "mtech", "m.tech">>],
      [degree |-> "Bachelor",
       patterns |-> <<"bachelor'?s?", "bs", "b.s", "b.tech", "btech", "bsc", "b.sc">>],
      [degree |-> "Diploma", patterns |-> <<"diploma", "associate", "a.s">>],
      [degree |-> "High School", patterns |-> <<"high school", "secondary", "h.s", "hs">>]>>

\* is the first element of the pattern followed by '?'
PatternOptional(pattern) == Len(pattern) >= 2 /\ CharAt(pattern, 2) = "?"

\* the pattern after its first element
PatternRest(pattern) == SubSeq(pattern, IF PatternOptional(pattern) THEN 3 ELSE 2, Len(pattern))

\* does the first element of the pattern match the character at position i of s
PatternHere(pattern, s, i) ==
    /\ i <= Len(s)
    /\ IF CharAt(pattern, 1) = "." THEN CharAt(s, i) # "\n" ELSE CharAt(s, i) = CharAt(pattern, 1)

RECURSIVE MatchEnds(_, _, _)
\* the positions right after the matches of the pattern that start at position i of s
MatchEnds(pattern, s, i) ==
    IF pattern = "" THEN {i}
    ELSE (IF PatternHere(pattern, s, i) THEN MatchEnds(PatternRest(pattern), s, i + 1) ELSE {})
         \cup (IF PatternOptional(pattern) THEN MatchEnds(PatternRest(pattern), s, i) ELSE {})

\* re.search(r'\b' + pattern + r'\b', s)
SearchBounded(pattern, s) ==
    \E i \in 1..Len(s) :
        Boundary(s, i) /\ \E e \in MatchEnds(pattern, s, i) : Boundary(s, e)

\* the entries of education_mapping that have a pattern in the lower-cased text
DegreesFound(text_lower) ==
    {d \in 1..Len(education_mapping) :
        \E k \in 1..Len(education_mapping[d].patterns) :
            SearchBounded(education_mapping[d].patterns[k], text_lower)}

\* the first degree found, "Not Mentioned" when there is none
FirstDegree(found) ==
    IF found = {} THEN "Not Mentioned" ELSE education_mapping[Min(found)].degree

\* extract_education(text): text.lower() raises AttributeError on anything but a str
ExtractEducation(text) ==
    IF ~IsStr(text) THEN Raised("AttributeError")
    ELSE Str(FirstDegree(DegreesFound(Lower(text.s))))

\* the end of the longest run of characters of class that starts at position i of
\* s, i - 1 when the run is empty
RunEnd(s, i, class) ==
    Min({Len(s) + 1} \cup {e \in i..Len(s) : CharAt(s, e) \notin class}) - 1

\* the positions where the email pattern can start: a \b, then characters of the
\* local class up to an @ that a domain follows
EmailStarts(text) ==
    {j \in 1..Len(text) :
        /\ Boundary(text, j)
        /\ RunEnd(text, j, EmailLocalSet) >= j
        /\ RunEnd(text, j, EmailLocalSet) < Len(text)
        /\ CharAt(text, RunEnd(text, j, EmailLocalSet) + 1) = "@"
        /\ EmailDomainAfter(text, RunEnd(text, j, EmailLocalSet) + 1)}

\* the positions of the \. of the email pattern for the @ at position a
EmailDots(text, a) ==
    {d \in (a + 2)..Len(text) :
        /\ CharAt(text, d) = "."
        /\ AllIn(text, a + 1, d - 1, EmailDomainSet)
        /\ \E e \in (d + 2)..Len(text) : AllIn(text, d + 1, e, EmailTldSet) /\ Boundary(text, e + 1)}

\* the last position of the email match whose \. is at position d: the greedy {2,}
EmailEnd(text, d) ==
    Max({e \in (d + 2)..Len(text) : AllIn(text, d + 1, e, EmailTldSet) /\ Boundary(text, e + 1)})

\* group(0) of the email match that starts at position j: both + are greedy
EmailFrom(text, j) ==
    SubSeq(text, j, EmailEnd(text, Max(EmailDots(text, RunEnd(text, j, EmailLocalSet) + 1))))

\* info['email']
EmailOf(text) ==
    IF EmailStarts(text) = {} THEN None ELSE Str(EmailFrom(text, Min(EmailStarts(text))))

\* the positions where the phone pattern matches
PhoneStarts(text) == {j \in 1..Len(text) : Boundary(text, j) /\ PhoneAt(text, j)}

\* the number of characters [-.]? takes at position i
SeparatorLength(text, i) ==
    IF i <= Len(text) /\ CharAt(text, i) \in {"-", "."} THEN 1 ELSE 0

\* group(0) of the phone match that starts at position j
PhoneFrom(text, j) ==
    SubSeq(text, j,
           j + 9 + SeparatorLength(text, j + 3)
             + SeparatorLength(text, j + 6 + SeparatorLength(text, j + 3)))

\* info['phone']
PhoneOf(text) ==
    IF PhoneStarts(text) = {} THEN None ELSE Str(PhoneFrom(text, Min(PhoneStarts(text))))

\* [A-Za-z0-9-]
LinkedInNameSet == LowerSet \cup UpperSet \cup DigitSet \cup {"-"}

\* the positions where the LinkedIn pattern matches
LinkedInStarts(text) ==
    {i \in Occurrences(Lower(text), LinkedInPrefix) :
        /\ i + Len(LinkedInPrefix) <= Len(text)
        /\ CharAt(text, i + Len(LinkedInPrefix)) \in LinkedInNameSet}

\* group(0) of the LinkedIn match that starts at position i
LinkedInFrom(text, i) ==
    SubSeq(text, i, RunEnd(text, i + Len(LinkedInPrefix), LinkedInNameSet))

\* info['linkedin']
LinkedInOf(text) ==
    IF LinkedInStarts(text) = {} THEN None
    ELSE Str(LinkedInFrom(text, Min(LinkedInStarts(text))))

\* a Python dict with str keys, as a record
Dict(d) == [tag |-> "dict", d |-> d]

\* extract_contact_info(text): re.search raises TypeError on anything but a str
ExtractContactInfo(text) ==
    IF ~IsStr(text) THEN Raised("TypeError")
    ELSE Dict([email |-> EmailOf(text.s), phone |-> PhoneOf(text.s), linkedin |-> LinkedInOf(text.s)])

\* ------------------------------------------------------------------------
\* Keyword density and readability
\* ------------------------------------------------------------------------

\* text_lower.count(sn) + sum(text_lower.count(a) for a in
\* expand_skill_with_aliases(skill) if a != sn)
SkillKeywordCount(text_lower, skill) ==
    Count(text_lower, NormalizeSkill(skill))
    + CountAll(text_lower, SelectSeq(ExpandSkillWithAliases(skill),
                                     LAMBDA alias : alias # NormalizeSkill(skill)))

RECURSIVE KeywordsFound(_, _)
\* found: the skills with a count above 0, each with its count
KeywordsFound(text_lower, job_skills) ==
    IF job_skills = <<>> THEN <<>>
    ELSE (IF SkillKeywordCount(text_lower, Head(job_skills)) > 0
          THEN <<Tuple(<<Head(job_skills), SkillKeywordCount(text_lower, Head(job_skills))>>)>>
          ELSE <<>>)
         \o KeywordsFound(text_lower, Tail(job_skills))

\* missing: the skills with the count 0
KeywordsMissing(text_lower, job_skills) ==
    SelectSeq(job_skills, LAMBDA skill : SkillKeywordCount(text_lower, skill) = 0)

\* round(numerator / denominator * 100, 1) in tenths, a tie going to the even tenth
RoundPercentTenths(numerator, denominator) ==
    IF 2 * ((1000 * numerator) % denominator) > denominator
       \/ (2 * ((1000 * numerator) % denominator) = denominator
           /\ ((1000 * numerator) \div denominator) % 2 = 1)
    THEN (1000 * numerator) \div denominator + 1
    ELSE (1000 * numerator) \div denominator

\* the dict get_keyword_density returns, score_pct in tenths
DensityResult(found, missing, job_skills) ==
    Dict([found |-> found, missing |-> missing,
          score_pct |-> RoundPercentTenths(Len(found), Len(job_skills))])

\* get_keyword_density(resume_text, job_skills) for job_skills that is None or a
\* list: the early return copies job_skills with list(), which raises TypeError
\* on None, and resume_text.lower() raises AttributeError on anything but a str
GetKeywordDensity(resume_text, job_skills) ==
    IF ~Truthy(resume_text) \/ ~Truthy(job_skills)
    THEN (IF job_skills = None THEN Raised("TypeError")
          ELSE Dict([found |-> <<>>, missing |-> job_skills.l, score_pct |-> 0]))
    ELSE IF ~IsStr(resume_text) THEN Raised("AttributeError")
    ELSE DensityResult(KeywordsFound(Lower(resume_text.s), job_skills.l),
                       KeywordsMissing(Lower(resume_text.s), job_skills.l),
                       job_skills.l)

\* the words a minute of the reading time
WordsPerMinute == 200

\* the smallest word count of a resume of good length
MinGoodWords == 400

\* the largest word count of a resume of good length
MaxGoodWords == 1200

\* len(resume_text.split())
WordCount(text) ==
    Cardinality({i \in 1..Len(text) :
        CharAt(text, i) \notin WhiteSet /\ (i = 1 \/ CharAt(text, i - 1) \in WhiteSet)})

\* round(n / d), a tie going to the even number
RoundHalfEven(n, d) ==
    IF 2 * (n % d) > d \/ (2 * (n % d) = d /\ (n \div d) % 2 = 1) THEN n \div d + 1 ELSE n \div d

\* max(1, round(word_count / 200.0))
ReadingTime(word_count) ==
    IF RoundHalfEven(word_count, WordsPerMinute) > 1
    THEN RoundHalfEven(word_count, WordsPerMinute) ELSE 1

\* suggestion
LengthSuggestion(word_count) ==
    IF word_count < MinGoodWords
    THEN "Resume is too short. Add more bullet points and achievements (target 400-800 words)."
    ELSE IF word_count > MaxGoodWords
    THEN "Resume is long. Consider trimming to 1-2 pages (under 800 words) for ATS."
    ELSE "Length is good for ATS and recruiters."

\* the dict get_readability_stats returns for a text of word_count words
ReadabilityResult(word_count, char_count) ==
    Dict([word_count |-> word_count, char_count |-> char_count,
          reading_time_mins |-> ReadingTime(word_count),
          length_ok |-> (MinGoodWords <= word_count /\ word_count <= MaxGoodWords),
          suggestion |-> LengthSuggestion(word_count)])

\* get_readability_stats(resume_text): resume_text.split() raises AttributeError on
\* anything but a str
GetReadabilityStats(resume_text) ==
    IF ~Truthy(resume_text)
    THEN Dict([word_count |-> 0, char_count |-> 0, reading_time_mins |-> 0,
               length_ok |-> FALSE, suggestion |-> "Add resume content."])
    ELSE IF ~IsStr(resume_text) THEN Raised("AttributeError")
    ELSE ReadabilityResult(WordCount(resume_text.s), Len(resume_text.s))

\* ------------------------------------------------------------------------
\* Certifications
\* ------------------------------------------------------------------------

\* skill_cert_mapping of get_role_specific_certs, in the order of the dict
skill_cert_mapping ==
    <<[skill_keyword |-> "kubernetes",
       cert_info |-> [cert |-> "CKA - Kubernetes Administrator", relevance |-> "Critical", duration |-> "3-4 months"]],
      [skill_keyword |-> "docker",
       cert_info |-> [cert |-> "Docker Certified Associate", relevance |-> "Critical", duration |-> "1-2 months"]],
      [skill_keyword |-> "terraform",
       cert_info |-> [cert |-> "HashiCorp Certified Terraform Associate", relevance |-> "Critical", duration |-> "2 months"]],
      [skill_keyword |-> "aws",
       cert_info |-> [cert |-> "AWS Solutions Architect Associate", relevance |-> "Critical", duration |-> "2-3 months"]],
      [skill_keyword |-> "gcp",
       cert_info |-> [cert |-> "Google Cloud Associate Cloud Engineer", relevance |-> "Critical", duration |-> "2-3 months"]],
      [skill_keyword |-> "google cloud",
       cert_info |-> [cert |-> "Google Cloud Associate Cloud Engineer", relevance |-> "Critical", duration |-> "2-3 months"]],
      [skill_keyword |-> "azure",
       cert_info |-> [cert |-> "Azure Administrator", relevance |-> "Critical", duration |-> "2-3 months"]],
      [skill_keyword |-> "python",
       cert_info |-> [cert |-> "Google ML Engineer Certificate", relevance |-> "High", duration |-> "3-6 months"]],
      [skill_keyword |-> "machine learning",
       cert_info |-> [cert |-> "AWS ML Specialty", relevance |-> "Critical", duration |-> "3-4 months"]],
      [skill_keyword |-> "ml",
       cert_info |-> [cert |-> "AWS ML Specialty", relevance |-> "Critical", duration |-> "3-4 months"]],
      [skill_keyword |-> "data science",
       cert_info |-> [cert |-> "Google ML Engineer Certificate", relevance |-> "Critical", duration |-> "3-6 months"]],
      [skill_keyword |-> "sql",
       cert_info |-> [cert |-> "Google Cloud Data Engineer", relevance |-> "High", duration |-> "3-4 months"]],
      [skill_keyword |-> "spark",
       cert_info |-> [cert |-> "AWS Data Analytics Specialty", relevance |-> "Critical", duration |-> "3-4 months"]],
      [skill_keyword |-> "tableau",
       cert_info |-> [cert |-> "Tableau Public Certified Associate", relevance |-> "Critical", duration |-> "2-3 months"]],
      [skill_keyword |-> "power bi",
       cert_info |-> [cert |-> "Microsoft Certified: Data Analyst Associate", relevance |-> "Critical", duration |-> "3-4 months"]],
      [skill_keyword |-> "java",
       cert_info |-> [cert |-> "Oracle Certified Associate Java Programmer", relevance |-> "High", duration |-> "2-3 months"]],
      [skill_keyword |-> "react",
       cert_info |-> [cert |-> "Google Mobile Web Specialist", relevance |-> "High", duration |-> "1-2 months"]],
      [skill_keyword |-> "angular",
       cert_info |-> [cert |-> "Google Mobile Web Specialist", relevance |-> "High", duration |-> "1-2 months"]],
      [skill_keyword |-> "node.js",
       cert_info |-> [cert |-> "AWS Solutions Architect Associate", relevance |-> "High", duration |-> "2-3 months"]],
      [skill_keyword |-> "nodejs",
       cert_info |-> [cert |-> "AWS Solutions Architect Associate", relevance |-> "High", duration |-> "2-3 months"]],
      [skill_keyword |-> "django",
       cert_info |-> [cert |-> "AWS Solutions Architect Associate", relevance |-> "High", duration |-> "2-3 months"]],
      [skill_keyword |-> "testing",
       cert_info |-> [cert |-> "ISTQB Certified Tester", relevance |-> "Critical", duration |-> "2-4 weeks"]],
      [skill_keyword |-> "qa",
       cert_info |-> [cert |-> "ISTQB Certified Tester", relevance |-> "Critical", duration |-> "2-4 weeks"]],
      [skill_keyword |-> "security",
       cert_info |-> [cert |-> "AWS Security Specialty", relevance |-> "Critical", duration |-> "2-3 months"]],
      [skill_keyword |-> "jenkins",
       cert_info |-> [cert |-> "AWS DevOps Engineer Professional", relevance |-> "High", duration |-> "3-4 months"]],
      [skill_keyword |-> "devops",
       cert_info |-> [cert |-> "AWS DevOps Engineer Professional", relevance |-> "Critical", duration |-> "3-4 months"]],
      [skill_keyword |-> "premiere pro",
       cert_info |-> [cert |-> "Adobe Certified Professional - Video Design", relevance |-> "Critical", duration |-> "1-2 months"]],
      [skill_keyword |-> "after effects",
       cert_info |-> [cert |-> "Adobe Certified Professional - Visual Design", relevance |-> "Critical", duration |-> "1-2 months"]],
      [skill_keyword |-> "davinci resolve",
       cert_info |-> [cert |-> "Blackmagic DaVinci Resolve Certified", relevance |-> "High", duration |-> "1-2 months"]],
      [skill_keyword |-> "video editing",
       cert_info |-> [cert |-> "Adobe Certified Professional - Video Design", relevance |-> "Critical", duration |-> "2-3 months"]],
      [skill_keyword |-> "motion graphics",
       cert_info |-> [cert |-> "Adobe Certified Professional - Visual Design", relevance |-> "Critical", duration |-> "2-3 months"]],
      [skill_keyword |-> "photoshop",
       cert_info |-> [cert |-> "Adobe Certified Professional - Graphic Design", relevance |-> "Critical", duration |-> "1-2 months"]],
      [skill_keyword |-> "illustrator",
       cert_info |-> [cert |-> "Adobe Certified Professional - Graphic Design", relevance |-> "Critical", duration |-> "1-2 months"]],
      [skill_keyword |-> "figma",
       cert_info |-> [cert |-> "Figma Certified Professional", relevance |-> "High", duration |-> "2-4 weeks"]],
      [skill_keyword |-> "graphic design",
       cert_info |-> [cert |-> "Adobe Certified Professional - Graphic Design", relevance |-> "Critical", duration |-> "2-3 months"]],
      [skill_keyword |-> "ui design",
       cert_info |-> [cert |-> "Google UX Certificate", relevance |-> "High", duration |-> "3-6 months"]],
      [skill_keyword |-> "ux design",
       cert_info |-> [cert |-> "Google UX Certificate", relevance |-> "Critical", duration |-> "3-6 months"]],
      [skill_keyword |-> "content writing",
       cert_info |-> [cert |-> "HubSpot Content Marketing", relevance |-> "High", duration |-> "1-2 months"]],
      [skill_keyword |-> "copywriting",
       cert_info |-> [cert |-> "American Writers & Artists Inc. (AWAI)", relevance |-> "High", duration |-> "2-3 months"]],
      [skill_keyword |-> "seo",
       cert_info |-> [cert |-> "Google Analytics / SEO Certifications", relevance |-> "Critical", duration |-> "1-2 months"]],
      [skill_keyword |-> "digital marketing",
       cert_info |-> [cert |-> "Google Digital Marketing Certificate", relevance |-> "Critical", duration |-> "3-6 months"]],
      [skill_keyword |-> "social media marketing",
       cert_info |-> [cert |-> "Meta Blueprint Certified", relevance |-> "High", duration |-> "1-2 months"]],
      [skill_keyword |-> "color grading",
       cert_info |-> [cert |-> "Blackmagic DaVinci Resolve Certified", relevance |-> "Medium", duration |-> "1-2 months"]],
      [skill_keyword |-> "video production",
       cert_info |-> [cert |-> "Adobe Certified Professional - Video Design", relevance |-> "Critical", duration |-> "2-3 months"]],
      [skill_keyword |-> "blender",
       cert_info |-> [cert |-> "Blender Certification", relevance |-> "High", duration |-> "2-3 months"]]>>

\* default_certs_by_role of get_role_specific_certs
default_certs_by_role ==
    <<[role |-> "Backend Developer", certs |->
        <<[cert |-> "AWS Solutions Architect Associate", relevance |-> "Critical", duration |-> "2-3 months"],
          [cert |-> "Oracle Certified Associate Java Programmer", relevance |-> "High", duration |-> "2-3 months"],
          [cert |-> "Microsoft Azure Developer", relevance |-> "High", duration |-> "2-3 months"]>>],
      [role |-> "Frontend Developer", certs |->
        <<[cert |-> "Google Mobile Web Specialist", relevance |-> "Critical", duration |-> "1-2 months"],
          [cert |-> "AWS Solutions Architect Associate", relevance |-> "High", duration |-> "2-3 months"],
          [cert |-> "Microsoft Azure Web Developer", relevance |-> "Medium", duration |-> "2 months"]>>],
      [role |-> "Full Stack Developer", certs |->
        <<[cert |-> "AWS Solutions Architect Associate", relevance |-> "Critical", duration |-> "2-3 months"],
          [cert |-> "Google Cloud Associate Cloud Engineer", relevance |-> "Critical", duration |-> "2-3 months"],
          [cert |-> "Azure Administrator", relevance |-> "High", duration |-> "2-3 months"]>>],
      [role |-> "DevOps Engineer", certs |->
        <<[cert |-> "CKA - Kubernetes Administrator", relevance |-> "Critical", duration |-> "3-4 months"],
          [cert |-> "AWS DevOps Engineer Professional", relevance |-> "Critical", duration |-> "3-4 months"],
          [cert |-> "Docker Certified Associate", relevance |-> "Critical", duration |-> "1-2 months"],
          [cert |-> "HashiCorp Certified Terraform Associate", relevance |-> "High", duration |-> "2 months"]>>],
      [role |-> "Cloud Architect", certs |->
        <<[cert |-> "AWS Solutions Architect Professional", relevance |-> "Critical", duration |-> "3-4 months"],
          [cert |-> "Google Cloud Architect", relevance |-> "Critical", duration |-> "3-4 months"],
          [cert |-> "Azure Solutions Architect", relevance |-> "Critical", duration |-> "3 months"]>>],
      [role |-> "Data Scientist", certs |->
        <<[cert |-> "Google ML Engineer Certificate", relevance |-> "Critical", duration |-> "3-6 months"],
          [cert |-> "AWS ML Specialty", relevance |-> "Critical", duration |-> "3-4 months"],
          [cert |-> "Azure Data Scientist", relevance |-> "High", duration |-> "3 months"]>>],
      [role |-> "Data Engineer", certs |->
        <<[cert |-> "Google Cloud Data Engineer", relevance |-> "Critical", duration |-> "3-4 months"],
          [cert |-> "AWS Data Analytics Specialty", relevance |-> "Critical", duration |-> "3-4 months"],
          [cert |-> "Azure Data Engineer", relevance |-> "High", duration |-> "3 months"]>>],
      [role |-> "Data Analyst", certs |->
        <<[cert |-> "Google Data Analytics Certificate", relevance |-> "Critical", duration |-> "3-6 months"],
          [cert |-> "Microsoft Certified: Data Analyst Associate", relevance |-> "Critical", duration |-> "3-4 months"],
          [cert |-> "Tableau Public Certified Associate", relevance |-> "High", duration |-> "2-3 months"]>>],
      [role |-> "QA Engineer", certs |->
        <<[cert |-> "ISTQB Certified Tester", relevance |-> "Critical", duration |-> "2-4 weeks"],
          [cert |-> "AWS SysOps Administrator", relevance |-> "Medium", duration |-> "2-3 months"],
          [cert |-> "Azure Administrator", relevance |-> "Medium", duration |-> "2-3 months"]>>],
      [role |-> "Security Engineer", certs |->
        <<[cert |-> "AWS Security Specialty", relevance |-> "Critical", duration |-> "2-3 months"],
          [cert |-> "Google Cloud Security Engineer", relevance |-> "Critical", duration |-> "2-3 months"],
          [cert |-> "Azure Security Engineer", relevance |-> "Critical", duration |-> "2-3 months"]>>],
      [role |-> "Software Engineer", certs |->
        <<[cert |-> "AWS Solutions Architect Associate", relevance |-> "Critical", duration |-> "2-3 months"],
          [cert |-> "Google Cloud Associate Cloud Engineer", relevance |-> "High", duration |-> "2-3 months"],
          [cert |-> "Microsoft Azure Developer", relevance |-> "High", duration |-> "2-3 months"]>>],
      [role |-> "Machine Learning Engineer", certs |->
        <<[cert |-> "Google ML Engineer Certificate", relevance |-> "Critical", duration |-> "3-6 months"],
          [cert |-> "AWS ML Specialty", relevance |-> "Critical", duration |-> "3-4 months"],
          [cert |-> "Azure Data Scientist", relevance |-> "High", duration |-> "3 months"]>>],
      [role |-> "ML Engineer", certs |->
        <<[cert |-> "Google ML Engineer Certificate", relevance |-> "Critical", duration |-> "3-6 months"],
          [cert |-> "AWS ML Specialty", relevance |-> "Critical", duration |-> "3-4 months"]>>],
      [role |-> "Video Editor", certs |->
        <<[cert |-> "Adobe Certified Professional - Video Design", relevance |-> "Critical", duration |-> "2-3 months"],
          [cert |-> "Adobe Certified Professional - Visual Design (After Effects)", relevance |-> "Critical", duration |-> "1-2 months"],
          [cert |-> "Blackmagic DaVinci Resolve Certified", relevance |-> "High", duration |-> "1-2 months"],
          [cert |-> "Apple Certified Pro - Final Cut Pro X", relevance |-> "High", duration |-> "1-2 months"]>>],
      [role |-> "Graphic Designer", certs |->
        <<[cert |-> "Adobe Certified Professional - Graphic Design", relevance |-> "Critical", duration |-> "2-3 months"],
          [cert |-> "Adobe Certified Professional - Visual Design", relevance |-> "High", duration |-> "1-2 months"],
          [cert |-> "Figma Certified Professional", relevance |-> "High", duration |-> "2-4 weeks"]>>],
      [role |-> "Content Writer", certs |->
        <<[cert |-> "HubSpot Content Marketing Certification", relevance |-> "High", duration |-> "1-2 months"],
          [cert |-> "Google Digital Marketing Certificate", relevance |-> "High", duration |-> "3-6 months"],
          [cert |-> "AWAI Copywriting Certifications", relevance |-> "High", duration |-> "2-3 months"]>>],
      [role |-> "Digital Marketing", certs |->
        <<[cert |-> "Google Digital Marketing Certificate", relevance |-> "Critical", duration |-> "3-6 months"],
          [cert |-> "Google Analytics Certification", relevance |-> "Critical", duration |-> "1-2 months"],
          [cert |-> "Meta Blueprint Certified", relevance |-> "High", duration |-> "1-2 months"],
          [cert |-> "HubSpot Inbound Marketing", relevance |-> "High", duration |-> "1 month"]>>],
      [role |-> "Social Media Manager", certs |->
        <<[cert |-> "Meta Blueprint Certified", relevance |-> "Critical", duration |-> "1-2 months"],
          [cert |-> "Google Digital Marketing Certificate", relevance |-> "High", duration |-> "3-6 months"],
          [cert |-> "Hootsuite Social Marketing Certification", relevance |-> "High", duration |-> "2-4 weeks"]>>],
      [role |-> "UX Designer", certs |->
        <<[cert |-> "Google UX Certificate", relevance |-> "Critical", duration |-> "3-6 months"],
          [cert |-> "Figma Certified Professional", relevance |-> "High", duration |-> "2-4 weeks"],
          [cert |-> "Nielsen Norman Group UX Certification", relevance |-> "High", duration |-> "2-3 months"]>>],
      [role |-> "UI Designer", certs |->
        <<[cert |-> "Google UX Certificate", relevance |-> "Critical", duration |-> "3-6 months"],
          [cert |-> "Figma Certified Professional", relevance |-> "Critical", duration |-> "2-4 weeks"],
          [cert |-> "Adobe Certified Professional - Graphic Design", relevance |-> "High", duration |-> "2-3 months"]>>],
      [role |-> "Motion Graphics Designer", certs |->
        <<[cert |-> "Adobe Certified Professional - Visual Design", relevance |-> "Critical", duration |-> "2-3 months"],
          [cert |-> "Adobe Certified Professional - Video Design", relevance |-> "High", duration |-> "2-3 months"]>>],
      [role |-> "Video Producer", certs |->
        <<[cert |-> "Adobe Certified Professional - Video Design", relevance |-> "Critical", duration |-> "2-3 months"],
          [cert |-> "Blackmagic DaVinci Resolve Certified", relevance |-> "High", duration |-> "1-2 months"]>>],
      [role |-> "Product Manager", certs |->
        <<[cert |-> "Certified Product Manager (AIPMM)", relevance |-> "High", duration |-> "2-3 months"],
          [cert |-> "Google Project Management Certificate", relevance |-> "High", duration |-> "3-6 months"],
          [cert |-> "Certified Scrum Product Owner (CSPO)", relevance |-> "High", duration |-> "2-4 weeks"]>>],
      [role |-> "Project Manager", certs |->
        <<[cert |-> "PMP - Project Management Professional", relevance |-> "Critical", duration |-> "3-4 months"],
          [cert |-> "PRINCE2", relevance |-> "High", duration |-> "2-3 months"],
          [cert |-> "Certified Scrum Master (CSM)", relevance |-> "High", duration |-> "2-4 weeks"]>>],
      [role |-> "Business Analyst", certs |->
        <<[cert |-> "ECBA / CBAP - Business Analysis", relevance |-> "Critical", duration |-> "3-6 months"],
          [cert |-> "Google Data Analytics Certificate", relevance |-> "High", duration |-> "3-6 months"]>>],
      [role |-> "Scrum Master", certs |->
        <<[cert |-> "Certified Scrum Master (CSM)", relevance |-> "Critical", duration |-> "2-4 weeks"],
          [cert |-> "SAFe Scrum Master", relevance |-> "High", duration |-> "1-2 months"]>>],
      [role |-> "iOS Developer", certs |->
        <<[cert |-> "Apple Certified Developer", relevance |-> "High", duration |-> "2-3 months"]>>],
      [role |-> "Android Developer", certs |->
        <<[cert |-> "Associate Android Developer Certification", relevance |-> "Critical", duration |-> "2-3 months"]>>],
      [role |-> ".NET Developer", certs |->
        <<[cert |-> "Microsoft Certified: .NET Developer", relevance |-> "Critical", duration |-> "2-3 months"],
          [cert |-> "Microsoft Certified: Azure Developer", relevance |-> "High", duration |-> "2-3 months"]>>],
      [role |-> "Technical Writer", certs |->
        <<[cert |-> "CPTC - Certified Professional Technical Communicator", relevance |-> "High", duration |-> "2-3 months"]>>]>>

\* default_certs of match_certifications
default_certs ==
    <<[role |-> "Backend Developer", certs |->
        <<[cert |-> "AWS Solutions Architect Associate", relevance |-> "Critical", duration |-> "2-3 months"],
          [cert |-> "Oracle Certified Associate Java Programmer", relevance |-> "High", duration |-> "2-3 months"]>>],
      [role |-> "Frontend Developer", certs |->
        <<[cert |-> "Google Mobile Web Specialist", relevance |-> "Critical", duration |-> "1-2 months"],
          [cert |-> "AWS Solutions Architect Associate", relevance |-> "High", duration |-> "2-3 months"]>>],
      [role |-> "DevOps Engineer", certs |->
        <<[cert |-> "CKA - Kubernetes Administrator", relevance |-> "Critical", duration |-> "3-4 months"],
          [cert |-> "AWS DevOps Engineer Professional", relevance |-> "Critical", duration |-> "3-4 months"]>>],
      [role |-> "Data Analyst", certs |->
        <<[cert |-> "Microsoft Certified: Data Analyst Associate", relevance |-> "Critical", duration |-> "3-4 months"],
          [cert |-> "Google Data Analytics Certificate", relevance |-> "Critical", duration |-> "3-6 months"]>>],
      [role |-> "Data Scientist", certs |->
        <<[cert |-> "AWS ML Specialty", relevance |-> "Critical", duration |-> "3-4 months"],
          [cert |-> "Google ML Engineer Certificate", relevance |-> "Critical", duration |-> "3-6 months"]>>]>>

\* the certificate names of a list of certifications
CertNames(certs) == {certs[i].cert : i \in 1..Len(certs)}

\* table.get(job_role, []) for default_certs_by_role and default_certs
CertsOfRole(table, job_role) ==
    IF \E i \in 1..Len(table) : table[i].role = job_role
    THEN table[CHOOSE i \in 1..Len(table) : table[i].role = job_role].certs
    ELSE <<>>

\* job_skills_list: the skills extracted from a str, the entries of a list, nothing
\* for None
JobSkillsList(job_skills) ==
    IF IsStr(job_skills) THEN extract_skills(job_skills, None)
    ELSE IF Truthy(job_skills) THEN job_skills.l
    ELSE <<>>

\* the entries of skill_cert_mapping whose keyword is in skill_lower and whose
\* certificate is not among seen_certs
UnseenMatches(skill_lower, seen_certs) ==
    {i \in 1..Len(skill_cert_mapping) :
        /\ Contains(skill_lower, skill_cert_mapping[i].skill_keyword)
        /\ skill_cert_mapping[i].cert_info.cert \notin seen_certs}

\* the inner loop for one skill: the first such entry is appended and the loop
\* left; seen_certs holds the names of the recommendations
WithSkillMatch(recommendations, unseen) ==
    IF unseen = {} THEN recommendations
    ELSE Append(recommendations, skill_cert_mapping[Min(unseen)].cert_info)

RECURSIVE SkillMatches(_, _)
\* recommendations after the loop over job_skills_list
SkillMatches(job_skills_list, recommendations) ==
    IF job_skills_list = <<>> THEN recommendations
    ELSE SkillMatches(Tail(job_skills_list),
                      WithSkillMatch(recommendations,
                                     UnseenMatches(Lower(NormalizeSkill(Head(job_skills_list))),
                                                   CertNames(recommendations))))

\* if not recommendations: the role's default certifications take their place,
\* and seen_certs is left as it is
OrRoleDefaults(recommendations, role_certs) ==
    IF recommendations = <<>> THEN role_certs ELSE recommendations

RECURSIVE TopUp(_, _, _)
\* the loop that fills up to four recommendations from the role's default
\* certifications not among seen_certs
TopUp(recommendations, seen_certs, role_certs) ==
    IF role_certs = <<>> THEN recommendations
    ELSE IF Head(role_certs).cert \notin seen_certs /\ Len(recommendations) < 4
    THEN TopUp(Append(recommendations, Head(role_certs)), seen_certs \cup {Head(role_certs).cert},
               Tail(role_certs))
    ELSE TopUp(recommendations, seen_certs, Tail(role_certs))

\* get_role_specific_certs from the end of the skill loop on: matched holds the
\* recommendations of the loop, whose names are seen_certs
WithRoleDefaults(matched, role_certs) ==
    IF Len(OrRoleDefaults(matched, role_certs)) < 3
    THEN TopUp(OrRoleDefaults(matched, role_certs), CertNames(matched), role_certs)
    ELSE OrRoleDefaults(matched, role_certs)

\* get_role_specific_certs(job_role, job_skills)
GetRoleSpecificCerts(job_role, job_skills) ==
    Prefix(WithRoleDefaults(SkillMatches(JobSkillsList(job_skills), <<>>),
                            CertsOfRole(default_certs_by_role, job_role)), 6)

\* a certification as match_certifications returns it
Recommendation(job_role, cert) ==
    [area |-> job_role, cert |-> cert.cert, relevance |-> cert.relevance, duration |-> cert.duration]

\* recommendations of match_certifications
RoleRecommendations(job_role, role_certs) ==
    [i \in 1..Len(role_certs) |-> Recommendation(job_role, role_certs[i])]

RECURSIVE AddCerts(_, _, _, _)
\* the loop over additional_certs: a certification not among existing_cert_names
\* is added while there are fewer than five recommendations
AddCerts(recommendations, existing_cert_names, additional_certs, job_role) ==
    IF additional_certs = <<>> THEN recommendations
    ELSE IF Head(additional_certs).cert \notin existing_cert_names /\ Len(recommendations) < 5
    THEN AddCerts(Append(recommendations, Recommendation(job_role, Head(additional_certs))),
                  existing_cert_names, Tail(additional_certs), job_role)
    ELSE AddCerts(recommendations, existing_cert_names, Tail(additional_certs), job_role)

\* match_certifications from recommendations on
WithMinimum(recommendations, job_role) ==
    Prefix(IF Len(recommendations) < 3
           THEN AddCerts(recommendations, CertNames(recommendations),
                         CertsOfRole(default_certs, job_role), job_role)
           ELSE recommendations, 6)

\* match_certifications(job_description, resume_text, resume_skills)
MatchCertifications(job_description, resume_text, resume_skills) ==
    WithMinimum(RoleRecommendations(detect_job_role(job_description),
                                    GetRoleSpecificCerts(detect_job_role(job_description),
                                                         List(extract_job_requirements(job_description)))),
                detect_job_role(job_description))

\* ------------------------------------------------------------------------
\* ATS checklist
\* ------------------------------------------------------------------------

\* the word counts of the length check: pass from MinPassWords to MaxPassWords,
\* warn from MinWarnWords up to the passing band and above LongWarnWords
MinPassWords == 400

MaxPassWords == 1500

MinWarnWords == 200

LongWarnWords == 2000

\* contact_count = sum(1 for v in contact.values() if v)
ContactCount(contact) ==
    Cardinality({k \in DOMAIN contact : Truthy(contact[k])})

\* 'pass' if count >= pass_from else 'warn' if count >= warn_from else 'fail'
CountStatus(count, pass_from, warn_from) ==
    IF count >= pass_from THEN "pass" ELSE IF count >= warn_from THEN "warn" ELSE "fail"

\* 'pass' if section in resume_text.lower() else 'fail'
SectionStatus(text_lower, section) == IF Contains(text_lower, section) THEN "pass" ELSE "fail"

\* 'pass' if 400 <= word_count <= 1500 else 'warn' if 200 <= word_count < 400 or
\* word_count > 2000 else 'fail'
LengthStatus(word_count) ==
    IF MinPassWords <= word_count /\ word_count <= MaxPassWords THEN "pass"
    ELSE IF (MinWarnWords <= word_count /\ word_count < MinPassWords)
            \/ word_count > LongWarnWords THEN "warn"
    ELSE "fail"

\* 'pass' if experience and experience > 0 else 'fail', for an experience that
\* is None or an int
ExperienceStatus(experience) ==
    IF Truthy(experience) /\ experience.n > 0 THEN "pass" ELSE "fail"

\* one entry of the checklist
CheckItem(item, status, tip) == [item |-> item, status |-> status, tip |-> tip]

\* checklist
Checklist(contact_count, text_lower, word_count, verb_count, skills_count, experience) ==
    <<CheckItem("Contact info (email, phone, LinkedIn)", CountStatus(contact_count, 2, 1),
                "Add email, phone, and LinkedIn URL."),
      CheckItem("Experience section", SectionStatus(text_lower, "experience"),
                "Include a clear Experience or Work History section."),
      CheckItem("Education section", SectionStatus(text_lower, "education"),
                "Include Education with degree and institution."),
      CheckItem("Skills section", SectionStatus(text_lower, "skills"),
                "List technical and soft skills clearly."),
      CheckItem("Length (400\\u20131500 words)", LengthStatus(word_count),
                "Ideal: 1\\u20132 pages, 400\\u2013800 words."),
      CheckItem("Action verbs (5+)", CountStatus(verb_count, 5, 2),
                "Start bullets with Led, Developed, Implemented, etc."),
      CheckItem("Skills count (8+)", CountStatus(skills_count, 8, 5),
                "List 8\\u201315 relevant skills."),
      CheckItem("Experience years mentioned", ExperienceStatus(experience),
                "Mention years of experience explicitly.")>>

\* get_ats_checklist(resume_text, resume_skills, experience, education) for a
\* list of skills and an experience that is None or an int: extract_contact_info
\* raises TypeError on a resume_text that is not a str
GetAtsChecklist(resume_text, resume_skills, experience, education) ==
    IF ~IsStr(resume_text) THEN Raised("TypeError")
    ELSE List(Checklist(ContactCount(ExtractContactInfo(resume_text).d), Lower(resume_text.s),
                        WordCount(resume_text.s),
                        CountAll(Lower(resume_text.s), LowerEach(QUALITY_RUBRIC.action_verbs.verbs)),
                        Len(resume_skills.l), experience))

\* ------------------------------------------------------------------------
\* Interview readiness
\* ------------------------------------------------------------------------

\* str() of a percentage rounded to two decimals, the percentage in hundredths
FormatPercent(hundredths) ==
    ToString(hundredths \div 100) \o "." \o
        (IF hundredths % 10 = 0 THEN ToString((hundredths % 100) \div 10)
         ELSE IF hundredths % 100 < 10 THEN "0" \o ToString(hundredths % 100)
         ELSE ToString(hundredths % 100))

\* what one step of get_interview_readiness_score adds: points to the score, a
\* strength or a concern
Band(points, strengths, concerns) ==
    [points |-> points, strengths |-> strengths, concerns |-> concerns]

\* the experience factor
ExperienceBand(experience) ==
    IF experience >= 5
    THEN Band(30, <<"Strong experience (" \o ToString(experience) \o "+ years)">>, <<>>)
    ELSE IF experience >= 2
    THEN Band(20, <<"Relevant experience (" \o ToString(experience) \o " years)">>, <<>>)
    ELSE IF experience >= 1
    THEN Band(10, <<>>, <<"Limited experience - prepare examples">>)
    ELSE Band(0, <<>>, <<"Entry-level position - emphasize learning">>)

\* the skills match factor, match_pct in hundredths (the dash of the second
\* concern is written as its escape)
MatchBand(match_pct) ==
    IF match_pct >= 9000
    THEN Band(40, <<"Expert match (" \o FormatPercent(match_pct) \o "% of required skills)">>, <<>>)
    ELSE IF match_pct >= 7000
    THEN Band(30, <<"Good match (" \o FormatPercent(match_pct) \o "% of required skills)">>, <<>>)
    ELSE IF match_pct >= 5000
    THEN Band(20, <<>>, <<"Moderate skill gaps\\u2014prepare a learning plan.">>)
    ELSE Band(10, <<>>, <<"Highlight transferable skills to offset gaps.">>)

\* the education factor
EducationBand(education) ==
    IF education \in {Str("Master"), Str("PhD")}
    THEN Band(15, <<"Advanced degree (" \o education.s \o ")">>, <<>>)
    ELSE IF education = Str("Bachelor") THEN Band(10, <<>>, <<>>)
    ELSE Band(0, <<>>, <<>>)

\* tech_skills = [s for s in resume_skills if s in TECHNICAL_SKILLS]
TechSkills(resume_skills) == SelectSeq(resume_skills, LAMBDA x : x \in Range(TECHNICAL_SKILLS))

\* the technical depth factor
DepthBand(tech_skills) ==
    IF Len(tech_skills) >= 10 THEN Band(15, <<"Strong technical depth">>, <<>>)
    ELSE IF Len(tech_skills) >= 5 THEN Band(10, <<>>, <<>>)
    ELSE Band(0, <<>>, <<>>)

\* readiness_level with each threshold itself left to the level below
ReadinessLevelAbove(score) ==
    IF score > 85 THEN "Excellent"
    ELSE IF score > 75 THEN "Very Good"
    ELSE IF score > 60 THEN "Good"
    ELSE "Fair"

\* readiness_level of a score
ReadinessLevel(score) ==
    IF score >= 85 THEN "Excellent"
    ELSE IF score >= 75 THEN "Very Good"
    ELSE IF score >= 60 THEN "Good"
    ELSE "Fair"

\* the dict returned for the four steps in the order of the code, and the points
\* each step added
ReadinessOf(bands) ==
    [result |-> [score |-> Min({100, bands[1].points + bands[2].points + bands[3].points + bands[4].points}),
                 strengths |-> Prefix(bands[1].strengths \o bands[2].strengths
                                      \o bands[3].strengths \o bands[4].strengths, 3),
                 concerns |-> Prefix(bands[1].concerns \o bands[2].concerns
                                     \o bands[3].concerns \o bands[4].concerns, 3),
                 readiness_level |-> ReadinessLevel(bands[1].points + bands[2].points
                                                    + bands[3].points + bands[4].points)],
     locals |-> [experience |-> bands[1].points, match |-> bands[2].points,
                 education |-> bands[3].points, depth |-> bands[4].points]]

\* get_interview_readiness_score(resume_skills, job_requirements, experience,
\* education); of calculate_match's result only the percentage is read, so the
\* order of its missing list does not matter here
GetInterviewReadinessScore(resume_skills, job_requirements, experience, education) ==
    ReadinessOf(<<ExperienceBand(experience),
                  MatchBand(CalculateMatch(resume_skills.l, RequiredSkills(job_requirements), <<>>).percentage),
                  EducationBand(education),
                  DepthBand(TechSkills(resume_skills.l))>>)

\* ------------------------------------------------------------------------
\* Recommendations
\* ------------------------------------------------------------------------

\* [s.title() for s in skills]
TitleEach(skills) == [i \in 1..Len(skills) |-> TitleCase(skills[i])]

\* the recommendation that names the first three missing skills, when any is missing
LearnSkills(missing) ==
    IF missing = <<>> THEN <<>>
    ELSE <<"Learn in-demand skills: " \o Join(", ", TitleEach(Prefix(missing, 3)))>>

\* the recommendation made when there is no other (its check mark written as its escape)
OrLooksGreat(recommendations) ==
    IF recommendations = <<>>
    THEN <<"\\u2713 Resume and skills look great! Focus on interview preparation.">>
    ELSE recommendations

\* get_improvement_suggestions(resume_skills, job_requirements, experience,
\* quality_issues), missing being the list calculate_match returned
GetImprovementSuggestions(quality_issues, missing) ==
    Prefix(OrLooksGreat(Prefix(quality_issues, 3) \o LearnSkills(missing)), 5)

RECURSIVE SkillPhrases(_)
\* the two phrases of each skill, in the order of the skills
SkillPhrases(skills) ==
    IF skills = <<>> THEN <<>>
    ELSE <<"Experience with " \o TitleCase(Head(skills)) \o " in production environments",
           "Proficient in " \o TitleCase(Head(skills)) \o " for building scalable solutions">>
         \o SkillPhrases(Tail(skills))

\* get_tailoring_phrases(job_skills, missing_skills, job_role), the skills being str
GetTailoringPhrases(job_skills, missing_skills, job_role) ==
    Prefix(SkillPhrases(Prefix(missing_skills, 5))
           \o <<"Strong fit for " \o job_role \o " role with hands-on technical delivery">>, 8)

\* ------------------------------------------------------------------------
\* Skill gaps
\* ------------------------------------------------------------------------

\* the demand and growth of TECHNICAL_SKILLS, entry i being that of the i-th key
TechnicalSkillData ==
    <<[demand |-> "High", growth |-> 15], [demand |-> "High", growth |-> 12], [demand |-> "High", growth |-> 8],
      [demand |-> "High", growth |-> 18], [demand |-> "Critical", growth |-> 5], [demand |-> "Medium", growth |-> 6],
      [demand |-> "High", growth |-> 9], [demand |-> "High", growth |-> 20], [demand |-> "High", growth |-> 25],
      [demand |-> "Critical", growth |-> 14], [demand |-> "Medium", growth |-> 12], [demand |-> "High", growth |-> 8],
      [demand |-> "Critical", growth |-> 3], [demand |-> "Critical", growth |-> 4], [demand |-> "High", growth |-> 22],
      [demand |-> "High", growth |-> 28], [demand |-> "High", growth |-> 13], [demand |-> "High", growth |-> 9],
      [demand |-> "Medium", growth |-> 11], [demand |-> "High", growth |-> 7], [demand |-> "High", growth |-> 35],
      [demand |-> "High", growth |-> 10], [demand |-> "High", growth |-> 8], [demand |-> "High", growth |-> 5],
      [demand |-> "High", growth |-> 12], [demand |-> "Critical", growth |-> 18], [demand |-> "Critical", growth |-> 20],
      [demand |-> "Critical", growth |-> 16], [demand |-> "Critical", growth |-> 15], [demand |-> "Critical", growth |-> 22],
      [demand |-> "High", growth |-> 24], [demand |-> "High", growth |-> 10], [demand |-> "High", growth |-> 9],
      [demand |-> "High", growth |-> 11], [demand |-> "Critical", growth |-> 7], [demand |-> "Critical", growth |-> 35],
      [demand |-> "High", growth |-> 42], [demand |-> "High", growth |-> 28], [demand |-> "High", growth |-> 32],
      [demand |-> "Critical", growth |-> 65], [demand |-> "Critical", growth |-> 70], [demand |-> "High", growth |-> 25],
      [demand |-> "High", growth |-> 28], [demand |-> "High", growth |-> 12], [demand |-> "High", growth |-> 10],
      [demand |-> "High", growth |-> 11], [demand |-> "Medium", growth |-> 2], [demand |-> "High", growth |-> 24],
      [demand |-> "High", growth |-> 18], [demand |-> "High", growth |-> 40], [demand |-> "Critical", growth |-> 6],
      [demand |-> "Critical", growth |-> 4], [demand |-> "High", growth |-> 20], [demand |-> "High", growth |-> 16],
      [demand |-> "High", growth |-> 14], [demand |-> "High", growth |-> 12], [demand |-> "High", growth |-> 18],
      [demand |-> "High", growth |-> 8], [demand |-> "High", growth |-> 10], [demand |-> "High", growth |-> 10]>>

\* LEARNING_PATHS: the entry resources and the timeline of each skill (the
\* intermediate and advanced resources are read by no function)
LEARNING_PATHS ==
    <<[key |-> "Python", entry |-> <<"Codecademy", "Django for Beginners">>, timeline |-> "4-8 weeks"],
      [key |-> "JavaScript", entry |-> <<"FreeCodeCamp", "Codecademy">>, timeline |-> "4-8 weeks"],
      [key |-> "AWS", entry |-> <<"AWS Training Portal", "A Cloud Guru">>, timeline |-> "12-16 weeks"],
      [key |-> "Kubernetes", entry |-> <<"Kubernetes Basics", "KodeKloud">>, timeline |-> "8-12 weeks"],
      [key |-> "Machine Learning", entry |-> <<"Andrew Ng ML Course">>, timeline |-> "16-24 weeks"]>>

\* default_resources of get_skill_gaps
default_resources == <<"Udemy", "Coursera", "Official documentation", "Hands-on projects">>

\* the timeline and the growth of a skill that has no table entry
DefaultTimeline == "6-12 weeks"

DefaultDemand == "Medium"

\* tech_norm = {normalize_skill(s) for s in TECHNICAL_SKILLS.keys()}
tech_norm == {NormalizeSkill(TECHNICAL_SKILLS[i]) : i \in 1..Len(TECHNICAL_SKILLS)}

\* path = LEARNING_PATHS.get(display_name, {}): the entries under that very key
PathOf(display_name) ==
    {i \in 1..Len(LEARNING_PATHS) : LEARNING_PATHS[i].key = display_name}

\* skill_data = TECHNICAL_SKILLS.get(display_name, {}): the entries under that very key
SkillDataOf(display_name) ==
    {i \in 1..Len(TECHNICAL_SKILLS) : TECHNICAL_SKILLS[i] = display_name}

\* skill in SKILL_MULTIPLIERS
HasPremium(skill) == \E i \in 1..Len(SKILL_MULTIPLIERS) : SKILL_MULTIPLIERS[i].skill = skill

\* path.get('timeline', '6-12 weeks')
TimelineOf(path) == IF path = {} THEN DefaultTimeline ELSE LEARNING_PATHS[Min(path)].timeline

\* path.get('entry', []) or default_resources
ResourcesOf(path) ==
    IF path = {} \/ LEARNING_PATHS[Min(path)].entry = <<>> THEN default_resources
    ELSE LEARNING_PATHS[Min(path)].entry

\* the gap of a missing skill that every technical skill is given the priority of
\* a skill without premium
TechnicalGapHigh(skill, display_name, path, skill_data) ==
    [skill |-> display_name,
     priority |-> "High",
     timeline |-> TimelineOf(path),
     resources |-> ResourcesOf(path),
     demand |-> IF skill_data = {} THEN DefaultDemand ELSE TechnicalSkillData[Min(skill_data)].demand,
     growth |-> IF skill_data = {} THEN 0 ELSE TechnicalSkillData[Min(skill_data)].growth]

\* the gap of a missing skill that is in tech_norm
TechnicalGap(skill, display_name, path, skill_data) ==
    [skill |-> display_name,
     priority |-> IF HasPremium(skill) THEN "Critical" ELSE "High",
     timeline |-> TimelineOf(path),
     resources |-> ResourcesOf(path),
     demand |-> IF skill_data = {} THEN DefaultDemand ELSE TechnicalSkillData[Min(skill_data)].demand,
     growth |-> IF skill_data = {} THEN 0 ELSE TechnicalSkillData[Min(skill_data)].growth]

\* the gap of a missing skill that is not in tech_norm
OtherGap(display_name) ==
    [skill |-> display_name, priority |-> "High", timeline |-> DefaultTimeline,
     resources |-> default_resources, demand |-> DefaultDemand, growth |-> 0]

\* one turn of the loop over sorted(missing)
GapOf(skill, display_name) ==
    IF skill \in tech_norm
    THEN TechnicalGap(skill, display_name, PathOf(display_name), SkillDataOf(display_name))
    ELSE OtherGap(display_name)

\* the gaps of the missing skills, in the order given
Gaps(missing) == [k \in 1..Len(missing) |-> GapOf(missing[k], TitleCase(missing[k]))]

\* get_skill_gaps(resume_skills, job_requirements): the gaps returned, and the
\* missing skills in the order of the loop
GetSkillGaps(resume_skills, job_requirements) ==
    [result |-> Prefix(Gaps(Sorted(NormalizedSet(RequiredSkills(job_requirements))
                                   \ NormalizedSet(resume_skills.l))), 8),
     locals |-> [missing |-> Sorted(NormalizedSet(RequiredSkills(job_requirements))
                                     \ NormalizedSet(resume_skills.l))]]

\* ------------------------------------------------------------------------
\* The static tables as objects shared by the calls of a session
\* ------------------------------------------------------------------------

\* a reference to an object of the heap
Ref(id) == [tag |-> "ref", id |-> id]

\* the list object SKILL_ALIASES[key] of the i-th key
AliasesId(i) == "SKILL_ALIASES." \o SKILL_ALIASES[i].key

\* the list object LEARNING_PATHS[key]['entry'] of the i-th key
EntryId(i) == "LEARNING_PATHS." \o LEARNING_PATHS[i].key

\* the heap after industry_data is imported: the skill taxonomies, the premium
\* table, the salary bands, the quality rubric, and the list objects of the alias
\* table and of the learning paths
LoadedTables ==
    [id \in {AliasesId(i) : i \in 1..Len(SKILL_ALIASES)} |->
        SKILL_ALIASES[CHOOSE i \in 1..Len(SKILL_ALIASES) : AliasesId(i) = id].aliases]
    @@ [id \in {EntryId(i) : i \in 1..Len(LEARNING_PATHS)} |->
        LEARNING_PATHS[CHOOSE i \in 1..Len(LEARNING_PATHS) : EntryId(i) = id].entry]
    @@ [TECHNICAL_SKILLS |-> TechnicalSkillData, SOFT_SKILLS |-> SOFT_SKILLS,
        CREATIVE_SKILLS |-> CREATIVE_SKILLS, SKILL_MULTIPLIERS |-> SKILL_MULTIPLIERS,
        INDUSTRY_SALARY_DATA |-> INDUSTRY_SALARY_DATA, QUALITY_RUBRIC |-> QUALITY_RUBRIC]

\* the heap without the object id, which nothing refers to any more
Without(heap, id) == [x \in DOMAIN heap \ {id} |-> heap[x]]

\* the object a call of the session makes: the caller keeps the results of its
\* earlier calls, so every call's object has a name of its own
ObjectOf(name, call) == Ref(name \o ToString(call))

\* a list object made by a call
NewList(heap, id, value) == (id :> value) @@ heap

\* aliases.insert(0, head); return aliases: the head is put into the list object
\* itself and that object returned
HeadInserted(heap, head, aliases, result) ==
    [heap |-> [heap EXCEPT ![aliases.id] = <<head>> \o @], result |-> aliases]

\* return [head] + aliases: a new list object, result, holding head and the
\* entries of the list object aliases
HeadPlus(heap, head, aliases, result) ==
    [heap |-> NewList(heap, result.id, <<head>> \o heap[aliases.id]), result |-> result]

\* skill_norm in SKILL_ALIASES
ExactKeys(skill_norm) == {i \in 1..Len(SKILL_ALIASES) : SKILL_ALIASES[i].key = skill_norm}

\* the keys whose list object holds skill_norm
ListedKeys(heap, skill_norm) ==
    {i \in 1..Len(SKILL_ALIASES) : skill_norm \in Range(heap[AliasesId(i)])}

\* expand_skill_with_aliases(skill) on the heap: the heap after the call and the
\* reference returned, result being the object a new list is made as
ExpandInHeap(heap, skill, result) ==
    IF ExactKeys(NormalizeSkill(skill)) # {}
    THEN HeadPlus(heap, NormalizeSkill(skill),
                  Ref(AliasesId(Min(ExactKeys(NormalizeSkill(skill))))), result)
    ELSE IF ListedKeys(heap, NormalizeSkill(skill)) # {}
    THEN HeadPlus(heap, SKILL_ALIASES[Min(ListedKeys(heap, NormalizeSkill(skill)))].key,
                  Ref(AliasesId(Min(ListedKeys(heap, NormalizeSkill(skill))))), result)
    ELSE [heap |-> NewList(heap, result.id, <<NormalizeSkill(skill)>>), result |-> result]

RECURSIVE ExpandEach(_, _)
\* the heap after expand_skill_with_aliases is called for every one of job_skills,
\* as get_keyword_density does, each result dropped after its use
ExpandEach(heap, job_skills) ==
    IF job_skills = <<>> THEN heap
    ELSE ExpandEach(Without(ExpandInHeap(heap, Head(job_skills), Ref("expanded")).heap, "expanded"),
                    Tail(job_skills))

\* resources = path.get('entry', []) or default_resources: the list object of the
\* table itself, or the list made by this call
ResourcesRef(heap, skill, path, resources) ==
    IF skill \notin tech_norm \/ path = {} THEN resources
    ELSE IF heap[EntryId(Min(path))] = <<>> THEN resources
    ELSE Ref(EntryId(Min(path)))

\* the gaps of get_skill_gaps with the resources as references
GapsInHeap(heap, missing, resources) ==
    [k \in 1..Len(missing) |->
        [GapOf(missing[k], TitleCase(missing[k]))
            EXCEPT !.resources = ResourcesRef(heap, missing[k], PathOf(TitleCase(missing[k])),
                                              resources)]]

\* get_skill_gaps(resume_skills, job_requirements) on the heap, resources being
\* the object default_resources is made as
SkillGapsInHeap(heap, resume_skills, job_requirements, resources) ==
    [heap |-> NewList(heap, resources.id, default_resources),
     result |-> List(Prefix(GapsInHeap(heap, GetSkillGaps(resume_skills, job_requirements).locals.missing,
                                       resources), 8))]

\* ------------------------------------------------------------------------
\* PDF text extraction and the technical-skill filter
\* ------------------------------------------------------------------------

\* a PDF file as extract_text_from_pdf sees it: PdfReader raises an exception with
\* a message, or gives pages; a page is the str its extract_text() returns, None
\* when it returns None, or Raised when it raises
CorruptPdf(name, message) == [name |-> name, readable |-> FALSE, message |-> message, pages |-> <<>>]

ReadablePdf(name, pages) == [name |-> name, readable |-> TRUE, message |-> "", pages |-> pages]

RECURSIVE PagesText(_)
\* text after the page loop: a page that raises, extract_text() itself or the
\* concatenation of None with a str, is skipped
PagesText(pages) ==
    IF pages = <<>> THEN ""
    ELSE (IF IsStr(Head(pages)) THEN Head(pages).s \o "\n" ELSE "") \o PagesText(Tail(pages))

\* what extract_text_from_pdf returns for the text of the pages
TextOrSentinel(text) ==
    IF Strip(text) # "" THEN [text |-> Strip(text), via |-> "text"]
    ELSE [text |-> "Error: Could not extract text", via |-> "no_text"]

\* extract_text_from_pdf(pdf_file), with the return statement taken
ExtractTextFromPdf(pdf_file) ==
    IF ~pdf_file.readable
    THEN [text |-> "Error extracting PDF: " \o pdf_file.message, via |-> "exception"]
    ELSE IF Len(pdf_file.pages) = 0
    THEN [text |-> "Error: PDF has no pages", via |-> "no_pages"]
    ELSE TextOrSentinel(PagesText(pdf_file.pages))

\* extract_text_from_pdf(pdf_file)
extract_text_from_pdf(pdf_file) == ExtractTextFromPdf(pdf_file).text

\* soft_skill_keywords of is_technical_skill
soft_skill_keywords ==
    {"communication", "leadership", "teamwork", "collaboration", "problem solving",
     "project management", "time management", "critical thinking", "negotiation",
     "presentation", "mentoring", "adaptability", "creativity", "emotional intelligence"}

\* is_technical_skill(skill)
IsTechnicalSkill(skill) ==
    IF \E i \in 1..Len(TECHNICAL_SKILLS) : NormalizeSkill(TECHNICAL_SKILLS[i]) = NormalizeSkill(skill)
    THEN TRUE
    ELSE IF \E i \in 1..Len(SOFT_SKILLS) : NormalizeSkill(SOFT_SKILLS[i]) = NormalizeSkill(skill)
    THEN FALSE
    ELSE NormalizeSkill(skill) \notin soft_skill_keywords

\* ------------------------------------------------------------------------
\* The application (app.py): what its modes compute from an uploaded resume
\* ------------------------------------------------------------------------

\* default_skills
default_skills ==
    << "Python", "SQL", "Machine Learning", "Data Analysis", "Java", "C++",
       "Communication", "Excel", "Leadership", "AWS", "React", "Node.js",
       "Docker", "Git", "Agile", "REST API", "JavaScript", "TypeScript" >>

\* all_industry_skills of the single resume analysis
all_industry_skills == TECHNICAL_SKILLS \o SOFT_SKILLS \o CREATIVE_SKILLS

\* all_industry of the batch comparison
all_industry == TECHNICAL_SKILLS \o SOFT_SKILLS

\* the marker the modes look for at the start of an extracted text
ErrorMarker == "Error"

RECURSIVE StripEach(_)
\* [skill.strip() for skill in parts]
StripEach(parts) ==
    IF parts = <<>> THEN <<>> ELSE <<Strip(Head(parts))>> \o StripEach(Tail(parts))

\* custom_skills: the entries of the comma-separated input, default_skills when it
\* is blank
CustomSkills(custom_skills_input) ==
    IF custom_skills_input = "" THEN default_skills
    ELSE StripEach(Split(custom_skills_input, ","))

\* resume_skills: sorted(list(set(extract_skills(resume_text, custom_skills))
\* | set(extract_skills(resume_text, industry_skills))))
ResumeSkills(resume_text, custom_skills, industry_skills) ==
    Sorted(Range(extract_skills(Str(resume_text), List(custom_skills)))
               \cup Range(extract_skills(Str(resume_text), List(industry_skills))))

\* the list a mode falls back to when no skill is found
FallbackSkills == <<"Python", "JavaScript">>

\* if not skills: skills = ['Python', 'JavaScript']
OrFallback(skills) == IF skills = <<>> THEN FallbackSkills ELSE skills

\* experience of the single resume analysis: what extract_experience found, and
\* when it found nothing 5 for a text with 'senior', 1 for one with 'junior', else 2
ExperienceOrDefault(experience, resume_text) ==
    IF experience # 0 THEN experience
    ELSE IF Contains(Lower(resume_text), "senior") THEN 5
    ELSE IF Contains(Lower(resume_text), "junior") THEN 1
    ELSE 2

\* technical_skills_count
TechnicalSkillsCount(resume_skills) ==
    Cardinality({i \in 1..Len(resume_skills) : IsTechnicalSkill(resume_skills[i])})

\* skill_factor in thousandths: min(100, (technical_skills_count / 10) * 100),
\* 0 without technical skills
SkillFactor(technical_skills_count) ==
    IF technical_skills_count = 0 THEN 0
    ELSE IF technical_skills_count * 10000 < 100000 THEN technical_skills_count * 10000
    ELSE 100000

\* experience_factor in thousandths: min(100, (experience / 8) * 100), 0 without
\* experience
ExperienceFactor(experience) ==
    IF experience = 0 THEN 0
    ELSE IF experience * 12500 < 100000 THEN experience * 12500
    ELSE 100000

\* ats_score of the single resume analysis in thousandths:
\* (quality_score * 0.5) + (skill_factor * 0.25) + (experience_factor * 0.25)
AtsScore(quality_score, skill_factor, experience_factor) ==
    500 * quality_score + skill_factor \div 4 + experience_factor \div 4

\* the scores of the single resume analysis up to the ATS score; the percentages
\* of calculate_match and calculate_weighted_match_score are in hundredths
SingleScores(resume_skills, job_skills, experience, education, match, quality_score) ==
    [resume_skills |-> resume_skills,
     job_skills |-> job_skills,
     experience |-> experience,
     education |-> education,
     match_score |-> match.percentage,
     matched_skills |-> match.matched,
     weighted_score |-> CalculateWeightedMatchScore(resume_skills, job_skills),
     quality_score |-> quality_score,
     technical_skills_count |-> TechnicalSkillsCount(resume_skills),
     ats_score |-> AtsScore(quality_score, SkillFactor(TechnicalSkillsCount(resume_skills)),
                            ExperienceFactor(experience))]

\* the single resume analysis from the extracted data on
SingleFrom(resume_text, resume_skills, job_skills, experience, education) ==
    SingleScores(resume_skills, job_skills, experience, education,
                 CalculateMatch(resume_skills, job_skills, <<>>),
                 AnalyzeResumeQuality(Str(resume_text), List(resume_skills), experience,
                                      Str(education)).score)

\* the single resume analysis of an extracted text
SingleAnalysis(resume_text, custom_skills, job_description) ==
    SingleFrom(resume_text,
               OrFallback(ResumeSkills(resume_text, custom_skills, all_industry_skills)),
               OrFallback(extract_job_requirements(Str(job_description))),
               ExperienceOrDefault(ExtractExperience(Str(resume_text)).n, resume_text),
               ExtractEducation(Str(resume_text)).s)

\* the functions the single resume analysis calls on the resume text
SingleCalls ==
    <<"extract_skills", "extract_skills", "extract_experience", "extract_education",
      "analyze_resume_quality">>

\* the row of the batch comparison for a document whose text starts with the
\* error marker
FailedRow(name) ==
    [Resume |-> name, ATS_Score |-> 0, Job_Match |-> 0, Quality |-> 0,
     Matched_Skills |-> 0, Total_Skills |-> 0]

\* the batch comparison leaving out a document whose text starts with the error
\* marker
FailedRowsSkipped(name) == <<>>

\* what the batch loop appends to ranking_data for a document whose text starts
\* with the error marker
FailedRows(name) == <<FailedRow(name)>>

\* ats_score of a batch row in thousandths: ats_score = quality_score
BatchAtsScore(quality_score) == 1000 * quality_score

\* the row of the batch comparison for an extracted text: ATS_Score in
\* thousandths, Job_Match in hundredths
ScoredRow(name, resume_skills, match, quality_score) ==
    [Resume |-> name,
     ATS_Score |-> BatchAtsScore(quality_score),
     Job_Match |-> match.percentage,
     Quality |-> quality_score,
     Matched_Skills |-> Len(match.matched),
     Total_Skills |-> Len(resume_skills)]

\* one turn of the batch loop for an extracted text, from its skills, experience
\* and education on: the row and the loop's variables
TurnFrom(name, resume_text, resume_skills, job_skills, experience, education) ==
    [row |-> ScoredRow(name, resume_skills, CalculateMatch(resume_skills, job_skills, <<>>),
                       AnalyzeResumeQuality(Str(resume_text), List(resume_skills), experience,
                                            Str(education)).score),
     resume_skills |-> resume_skills,
     experience |-> experience]

\* one turn of the batch loop for an extracted text
ScoredTurn(name, resume_text, custom_skills, job_skills) ==
    TurnFrom(name, resume_text, ResumeSkills(resume_text, custom_skills, all_industry),
             job_skills, ExtractExperience(Str(resume_text)).n,
             ExtractEducation(Str(resume_text)).s)

\* the functions the batch comparison calls on the resume text
BatchCalls ==
    <<"extract_skills", "extract_skills", "extract_experience", "extract_education",
      "analyze_resume_quality">>

\* job_skills_batch
JobSkillsBatch(job_description) ==
    IF extract_job_requirements(Str(job_description)) = <<>> THEN default_skills
    ELSE extract_job_requirements(Str(job_description))

\* the orders sort_values(by="ATS Score", ascending=False) can give the rows: the
\* default sort is not stable, rows with the same score come in any order
Rankings(ranking_data) ==
    {[i \in 1..Len(ranking_data) |-> ranking_data[p[i]]] :
        p \in {q \in [1..Len(ranking_data) -> 1..Len(ranking_data)] :
                  /\ \A i, j \in 1..Len(ranking_data) : i # j => q[i] # q[j]
                  /\ \A i \in 1..(Len(ranking_data) - 1) :
                         ranking_data[q[i]].ATS_Score >= ranking_data[q[i + 1]].ATS_Score}}

\* the functions the Resume Health Score tool calls on the resume text
HealthCalls ==
    <<"extract_skills", "extract_experience", "extract_education", "extract_contact_info",
      "analyze_resume_quality">>

\* what the Resume Health Score tool computes from the resume text
HealthFrom(resume_text, resume_skills, experience, education) ==
    [resume_skills |-> resume_skills,
     experience |-> experience,
     education |-> education,
     contact_info |-> ExtractContactInfo(Str(resume_text)).d,
     quality_score |-> AnalyzeResumeQuality(Str(resume_text), List(resume_skills), experience,
                                            Str(education)).score]

\* the Resume Health Score tool
HealthScore(resume_text) ==
    HealthFrom(resume_text, extract_skills(Str(resume_text), List(default_skills)),
               ExtractExperience(Str(resume_text)).n, ExtractEducation(Str(resume_text)).s)

\* the functions the Career Trajectory tool calls on the resume text
TrajectoryCalls == <<"extract_skills", "extract_experience">>

\* current_level of the Career Trajectory tool
CurrentLevel(experience) ==
    IF experience < 3 THEN "Junior" ELSE IF experience < 7 THEN "Mid-Level" ELSE "Senior"

\* the Career Trajectory tool
CareerTrajectory(resume_text) ==
    [resume_skills |-> extract_skills(Str(resume_text), List(default_skills)),
     experience |-> ExtractExperience(Str(resume_text)).n,
     current_level |-> CurrentLevel(ExtractExperience(Str(resume_text)).n)]

\* the functions the Competitive Analysis tool calls on the resume text
CompetitiveCalls ==
    <<"extract_skills", "extract_experience", "extract_education", "analyze_resume_quality">>

\* your_score of the Competitive Analysis tool: min(100, quality_score + experience * 3)
YourScore(quality_score, experience) ==
    IF quality_score + experience * 3 < 100 THEN quality_score + experience * 3 ELSE 100

\* what the Competitive Analysis tool computes from the resume text
CompetitiveFrom(resume_text, resume_skills, experience) ==
    [resume_skills |-> resume_skills,
     experience |-> experience,
     your_score |-> YourScore(AnalyzeResumeQuality(Str(resume_text), List(resume_skills), experience,
                                                   ExtractEducation(Str(resume_text))).score,
                              experience)]

\* the Competitive Analysis tool
CompetitiveAnalysis(resume_text) ==
    CompetitiveFrom(resume_text, extract_skills(Str(resume_text), List(default_skills)),
                    ExtractExperience(Str(resume_text)).n)

\* the functions the Learning Recommendations tool calls on the resume text
LearningCalls == <<"extract_skills">>

\* the Learning Recommendations tool up to the skill gaps
LearningRecommendations(resume_text, job_desc) ==
    [resume_skills |-> extract_skills(Str(resume_text), List(default_skills)),
     job_skills |-> IF job_desc # "" THEN extract_job_requirements(Str(job_desc))
                    ELSE default_skills]

\* ------------------------------------------------------------------------
\* Calls of extract_skills
\* ------------------------------------------------------------------------

\* pieces of resume text
SkillFragments == {"google", "Go", " ", "\n", "js", "python3", "REST API", ",", "mysql"}

SkillTexts == {Concat(q) : q \in SeqsUpTo(SkillFragments, MaxSkillFrags)}

SkillCandidates ==
    {None, List(<<"Go">>), List(<<"JavaScript">>), List(<<"Python", "SQL">>),
     List(<<"REST API", "MySQL">>)}

InitSkills ==
    /\ fn = "extract_skills"
    /\ input \in [text : {None} \cup {Str(t) : t \in SkillTexts}, skills : SkillCandidates]
    /\ output = Pending
    /\ via = ""
    /\ locals = <<>>

ExtractSkills ==
    /\ fn = "extract_skills"
    /\ output = Pending
    /\ output' = List(extract_skills(input.text, input.skills))
    /\ via' = "return"
    /\ UNCHANGED <<fn, input, locals>>

SpecSkills == InitSkills /\ [][ExtractSkills]_vars

\* ------------------------------------------------------------------------
\* Calls of detect_job_role
\* ------------------------------------------------------------------------

\* pieces of job-description text
RoleFragments ==
    {"Digital Marketing Manager", "Software Engineer, DevOps \n Engineer",
     " kubernetes, docker analytics platform", "backend rest api microservices",
     "SMM", "ux design", "Position: Head Chef.", " "}

RoleTexts == {Concat(q) : q \in SeqsUpTo(RoleFragments, MaxRoleFrags)}

InitRole ==
    /\ fn = "detect_job_role"
    /\ input \in [job_description : {None} \cup {Str(t) : t \in RoleTexts}]
    /\ output = Pending
    /\ via = ""
    /\ locals = <<>>

DetectRole ==
    /\ fn = "detect_job_role"
    /\ output = Pending
    /\ LET r == DetectJobRole(input.job_description)
       IN /\ output' = Str(r.role)
          /\ via' = r.via
    /\ UNCHANGED <<fn, input, locals>>

SpecRole == InitRole /\ [][DetectRole]_vars

\* ------------------------------------------------------------------------
\* Calls of extract_job_requirements
\* ------------------------------------------------------------------------

\* openings of a job description
JobLeads ==
    {"", "We are hiring a Video Editor. ", "Digital Marketing Manager. ", "Graphic designer. ",
     "Content Writer. ", "Social Media Manager. ", "UX designer wanted. ", "UI Designer. ",
     "Motion graphics. ", "Video Producer. ", "DevOps Engineer. ", "Position: Head Chef. ",
     "Role: Rust. ", " SQL devs "}

\* pieces of job-description text
JobFragments ==
    {"Required skills: Python, Premiere Pro. ", "Experience with SQL and Figma. ",
     "docker kubernetes aws terraform jenkins git ", "Hi "}

JobTexts == {lead \o Concat(q) : lead \in JobLeads, q \in SeqsUpTo(JobFragments, MaxJobFrags)}

InitJob ==
    /\ fn = "extract_job_requirements"
    /\ input \in [job_description : {None} \cup {Str(t) : t \in JobTexts}]
    /\ output = Pending
    /\ via = ""
    /\ locals = <<>>

\* the result of a call of extract_job_requirements is handed back
ReturnRequirements(r) ==
    /\ output' = List(r.result)
    /\ via' = r.via
    /\ locals' = r.locals

ExtractRequirements ==
    /\ fn = "extract_job_requirements"
    /\ output = Pending
    /\ ReturnRequirements(ExtractJobRequirements(input.job_description))
    /\ UNCHANGED <<fn, input>>

SpecJob == InitJob /\ [][ExtractRequirements]_vars

\* ------------------------------------------------------------------------
\* Calls of calculate_match and calculate_weighted_match_score
\* ------------------------------------------------------------------------

\* skill names as they come in resumes and postings
MatchSkills == {"Python", "python ", "AWS", "Git"}

\* job requirements given as text
RequirementTexts == {"", "python and aws"}

InitMatch ==
    /\ fn \in {"calculate_match", "calculate_weighted_match_score"}
    /\ input \in {[resume_skills |-> List(r), job_requirements |-> q] :
                    r \in SeqsUpTo(MatchSkills, MaxResumeSkills),
                    q \in {List(l) : l \in SeqsUpTo(MatchSkills, MaxRequiredSkills)}
                          \cup {Str(t) : t \in RequirementTexts}}
    /\ output = Pending
    /\ via = ""
    /\ locals = <<>>

\* the required skills of a call are kept as locals and the result handed back
ReturnMatch(required_skills, result) ==
    /\ output' = result
    /\ via' = "return"
    /\ locals' = [required_skills |-> required_skills]

MatchWith(resume_skills, required_skills) ==
    \E missing_order \in MissingOrders(resume_skills, required_skills) :
        ReturnMatch(required_skills, Tuple(CalculateMatch(resume_skills, required_skills, missing_order)))

Match ==
    /\ fn = "calculate_match"
    /\ output = Pending
    /\ MatchWith(input.resume_skills.l, RequiredSkills(input.job_requirements))
    /\ UNCHANGED <<fn, input>>

WeightedMatch ==
    /\ fn = "calculate_weighted_match_score"
    /\ output = Pending
    /\ ReturnMatch(RequiredSkills(input.job_requirements),
                   Number(calculate_weighted_match_score(input.resume_skills, input.job_requirements)))
    /\ UNCHANGED <<fn, input>>

SpecMatch == InitMatch /\ [][Match \/ WeightedMatch]_vars

\* ------------------------------------------------------------------------
\* Calls of analyze_resume_quality
\* ------------------------------------------------------------------------

\* what a resume says before it is filled up to a length
QualityBodies ==
    {"Summary ",
     "jane.doe@mail.com Experience Education Led Developed improved 20% ",
     "jane.doe@mail.com 555-123-4567 Experience Education Skills Led Developed Managed Created Built reduced 20% ",
     "jane.doe@mail.com 555-123-4567 LinkedIn.com/in/jane-doe Experience Education Skills Led Developed Managed Created Built Designed Achieved Optimized increased 20% reduced $5 grew "}

RECURSIVE Filler(_)
\* n characters that match nothing
Filler(n) ==
    IF n <= 0 THEN "" ELSE IF n = 1 THEN "." ELSE Filler(n \div 2) \o Filler(n - n \div 2)

\* the body filled up to n characters
FilledTo(body, n) == body \o Filler(n - Len(body))

\* the lengths around the tiers of the length category
QualityLengths == {0, 399, 400, 599, 600, MaxTextLength - 1, MaxTextLength}

QualityTexts ==
    {None, Str("")} \cup {Str(FilledTo(body, n)) : body \in QualityBodies, n \in QualityLengths}

\* the first n skills of the taxonomy
FirstSkills(n) == SubSeq(TECHNICAL_SKILLS, 1, n)

InitQuality ==
    /\ fn = "analyze_resume_quality"
    /\ input \in [resume_text : QualityTexts,
                  resume_skills : {List(FirstSkills(n)) : n \in {0, 5, 8, MaxQualitySkills}},
                  experience : {0 - 1, 1, 3, MaxExperience},
                  education : {Str(e) : e \in {"Master", "Bachelor", "High School", "Not Mentioned"}}]
    /\ output = Pending
    /\ via = ""
    /\ locals = <<>>

\* the result of a call of analyze_resume_quality is handed back
ReturnQuality(r) ==
    /\ output' = Tuple([score |-> r.score, issues |-> r.issues, analysis |-> r.analysis])
    /\ via' = IF r.locals = <<>> THEN "empty" ELSE "scored"
    /\ locals' = r.locals

AnalyzeQuality ==
    /\ fn = "analyze_resume_quality"
    /\ output = Pending
    /\ ReturnQuality(AnalyzeResumeQuality(input.resume_text, input.resume_skills,
                                          input.experience, input.education))
    /\ UNCHANGED <<fn, input>>

SpecQuality == InitQuality /\ [][AnalyzeQuality]_vars

\* ------------------------------------------------------------------------
\* Calls of predict_salary
\* ------------------------------------------------------------------------

\* experience as callers give it: an int, a text, nothing
SalaryExperiences ==
    {Number(n) : n \in (0 - MaxSalaryExperience)..MaxSalaryExperience}
    \cup {Number(1000000), Number(0 - 1000000)}
    \cup {None, Str(""), Str("abc"), Str("-5"), Str("12+ years"), Str("since 2019, 7 years")}

\* skill lists without a premium, with one, and with enough to reach the cap
SalarySkillLists ==
    {<<>>, <<"Git">>, <<"Python", "AWS ">>,
     <<"Machine Learning", "Generative AI", "LLM", "Kubernetes", "AWS", "Azure", "Python",
       "Docker", "Go", "Rust", "System Design", "Architecture", "Leadership">>}

InitSalary ==
    /\ fn = "predict_salary"
    /\ input \in [experience_years : SalaryExperiences,
                  resume_skills : {List(l) : l \in SalarySkillLists},
                  education : {Str(e) : e \in {"PhD", "Master", "Bachelor", "Not Mentioned"}},
                  industry : {Str(i) : i \in {"Tech", "Finance", "Healthcare Tech", "Startup", "Retail"}}]
    /\ output = Pending
    /\ via = ""
    /\ locals = <<>>

\* the result of a call of predict_salary is handed back
ReturnSalary(r) ==
    /\ output' = [tag |-> "dict", d |-> r]
    /\ via' = "return"
    /\ locals' = <<>>

Salary ==
    /\ fn = "predict_salary"
    /\ output = Pending
    /\ \E ups \in [1..3 -> {0, 1}] :
        ReturnSalary(PredictSalary(input.experience_years, input.resume_skills,
                                   input.education, input.industry, ups))
    /\ UNCHANGED <<fn, input>>

SpecSalary == InitSalary /\ [][Salary]_vars

\* ------------------------------------------------------------------------
\* Calls of expand_skill_with_aliases
\* ------------------------------------------------------------------------

\* the names of the alias table: its keys and its aliases
AliasTableNames ==
    UNION {{SKILL_ALIASES[i].key} \cup Range(SKILL_ALIASES[i].aliases) : i \in 1..Len(SKILL_ALIASES)}

\* skills to expand: the names of the alias table, the skills of the three skill
\* tables as written and normalized, and names that are in no table
AliasSkills ==
    AliasTableNames
        \cup Range(TECHNICAL_SKILLS) \cup Range(SOFT_SKILLS) \cup Range(CREATIVE_SKILLS)
        \cup {NormalizeSkill(x) : x \in Range(TECHNICAL_SKILLS) \cup Range(SOFT_SKILLS) \cup Range(CREATIVE_SKILLS)}
        \cup {"", "cobol", " JS ", "Amazon AWS", "ml/ai "}

InitAliases ==
    /\ fn = "expand_skill_with_aliases"
    /\ input \in [skill : {Str(x) : x \in AliasSkills}]
    /\ output = Pending
    /\ via = ""
    /\ locals = <<>>

ExpandAliases ==
    /\ fn = "expand_skill_with_aliases"
    /\ output = Pending
    /\ output' = List(ExpandSkillWithAliases(input.skill.s))
    /\ via' = "return"
    /\ UNCHANGED <<fn, input, locals>>

SpecAliases == InitAliases /\ [][ExpandAliases]_vars

\* ------------------------------------------------------------------------
\* Calls of extract_experience, extract_education, extract_contact_info,
\* get_keyword_density and get_readability_stats
\* ------------------------------------------------------------------------

\* pieces of resume text
ExtractionFragments ==
    {"5 years", "12+ yrs", "since 2019", "2020 years", " ", "\n", "MS", "b.tech",
     "a@b.co", "555-123.4567", "linkedin.com/in/jo", "js"}

\* what a caller can pass for a resume text: nothing, values that are not a str,
\* and texts
ExtractionTexts ==
    {None, Str(""), Number(0), Number(123), List(<<>>), List(<<"resume">>)}
        \cup {Str(Concat(q)) : q \in SeqsUpTo(ExtractionFragments, MaxExtractionFrags)}

RECURSIVE Words(_)
\* a text of n words
Words(n) ==
    IF n <= 0 THEN "" ELSE IF n = 1 THEN "word " ELSE Words(n \div 2) \o Words(n - n \div 2)

\* texts around the word counts get_readability_stats tells apart
ReadabilityTexts ==
    {Str(Words(n)) : n \in {100, 101, 201, 300, MinGoodWords - 1, MinGoodWords, MaxGoodWords,
                            MaxGoodWords + 1}}

\* what a caller can pass for the job skills
DensitySkills ==
    {None, List(<<>>), List(<<"JavaScript">>), List(<<"Python", "JavaScript", "AWS">>)}

InitExtraction ==
    /\ \/ /\ fn \in {"extract_experience", "extract_education", "extract_contact_info"}
          /\ input \in [text : ExtractionTexts]
       \/ /\ fn = "get_readability_stats"
          /\ input \in [resume_text : ExtractionTexts \cup ReadabilityTexts]
       \/ /\ fn = "get_keyword_density"
          /\ input \in [resume_text : ExtractionTexts, job_skills : DensitySkills]
    /\ output = Pending
    /\ via = ""
    /\ locals = <<>>

\* the function returns r or raises it
Finish(r) ==
    /\ output = Pending
    /\ output' = r
    /\ via' = IF r.tag = "raise" THEN "raise" ELSE "return"
    /\ UNCHANGED <<fn, input, locals>>

Experience == fn = "extract_experience" /\ Finish(ExtractExperience(input.text))

Education == fn = "extract_education" /\ Finish(ExtractEducation(input.text))

ContactInfo == fn = "extract_contact_info" /\ Finish(ExtractContactInfo(input.text))

KeywordDensity ==
    fn = "get_keyword_density" /\ Finish(GetKeywordDensity(input.resume_text, input.job_skills))

Readability == fn = "get_readability_stats" /\ Finish(GetReadabilityStats(input.resume_text))

NextExtraction == Experience \/ Education \/ ContactInfo \/ KeywordDensity \/ Readability

SpecExtraction == InitExtraction /\ [][NextExtraction]_vars

\* ------------------------------------------------------------------------
\* Calls of get_interview_readiness_score
\* ------------------------------------------------------------------------

\* resume skill lists: taxonomy names, and names that match a requirement without
\* being taxonomy names
ReadinessResumes ==
    {FirstSkills(n) : n \in {0, 3, 5, 6, MaxReadinessSkills}} \cup {<<"python", "Teamwork", "aws">>}

\* job requirements as a list and as text
ReadinessRequirements ==
    {List(FirstSkills(n)) : n \in {0, 4, 7, 8, MaxReadinessSkills}} \cup {Str("python and aws")}

InitReadiness ==
    /\ fn = "get_interview_readiness_score"
    /\ input \in [resume_skills : {List(r) : r \in ReadinessResumes},
                  job_requirements : ReadinessRequirements,
                  experience : {0, 1, 2, 4, MaxExperience},
                  education : {Str(e) : e \in {"Master", "PhD", "Bachelor", "High School", "Not Mentioned"}}]
    /\ output = Pending
    /\ via = ""
    /\ locals = <<>>

\* the dict is handed back; the points of the four steps are kept as locals
ReturnReadiness(r) ==
    /\ output' = Dict(r.result)
    /\ via' = "return"
    /\ locals' = r.locals

InterviewReadiness ==
    /\ fn = "get_interview_readiness_score"
    /\ output = Pending
    /\ ReturnReadiness(GetInterviewReadinessScore(input.resume_skills, input.job_requirements,
                                                  input.experience, input.education))
    /\ UNCHANGED <<fn, input>>

SpecReadiness == InitReadiness /\ [][InterviewReadiness]_vars

\* ------------------------------------------------------------------------
\* The same call in two runs of the program
\* ------------------------------------------------------------------------

\* skills a job can require
RerunSkills == <<"AWS", "Git", "Docker", "React", "Kotlin", "Node.js">>

\* the calls whose result is made from calculate_match's missing list:
\* calculate_match itself, get_improvement_suggestions, and get_tailoring_phrases
\* as the application calls it, with list(missing_skills)
RerunFunctions == {"calculate_match", "get_improvement_suggestions", "get_tailoring_phrases"}

InitRerun ==
    /\ fn \in RerunFunctions
    /\ input \in [resume_skills : {List(<<>>), List(<<"git", "Python">>)},
                  job_requirements : {List(SubSeq(RerunSkills, 1, n)) : n \in 0..MaxRerunSkills},
                  experience : {2},
                  quality_issues : {List(<<>>), List(<<"Missing email address">>)},
                  job_role : {Str("Software Developer")}]
    /\ output = Pending
    /\ via = "started"
    /\ locals = <<>>

\* what the call in flight returns when list(missing) comes out as missing_order
RerunResult(missing_order) ==
    IF fn = "calculate_match"
    THEN Tuple(CalculateMatch(input.resume_skills.l, input.job_requirements.l, missing_order))
    ELSE IF fn = "get_improvement_suggestions"
    THEN List(GetImprovementSuggestions(
                  input.quality_issues.l,
                  CalculateMatch(input.resume_skills.l, input.job_requirements.l, missing_order).missing))
    ELSE List(GetTailoringPhrases(
                  input.job_requirements.l,
                  CalculateMatch(input.resume_skills.l, input.job_requirements.l, missing_order).missing,
                  input.job_role.s))

\* the call is made in a first run of the program
FirstRun ==
    /\ fn \in RerunFunctions
    /\ via = "started"
    /\ \E missing_order \in MissingOrders(input.resume_skills.l, input.job_requirements.l) :
           output' = RerunResult(missing_order)
    /\ via' = "first run"
    /\ locals' = [first |-> Pending]
    /\ UNCHANGED <<fn, input>>

\* the program is started again and the same call made: the first result is kept
\* for comparison
SecondRun ==
    /\ fn \in RerunFunctions
    /\ via = "first run"
    /\ \E missing_order \in MissingOrders(input.resume_skills.l, input.job_requirements.l) :
           output' = RerunResult(missing_order)
    /\ via' = "second run"
    /\ locals' = [first |-> output]
    /\ UNCHANGED <<fn, input>>

SpecRerun == InitRerun /\ [][FirstRun \/ SecondRun]_vars

\* ------------------------------------------------------------------------
\* Calls of get_role_specific_certs and match_certifications
\* ------------------------------------------------------------------------

\* the roles with default certifications, and roles without
CertRoles ==
    {default_certs_by_role[i].role : i \in 1..Len(default_certs_by_role)}
        \cup {"Other Role", "Unclassified Role"}

\* job skills as callers give them: nothing, a text, lists with and without a
\* skill of the certification keywords
CertSkills ==
    {None, Str("python and aws"), List(<<>>), List(<<"Agile", "Communication">>),
     List(<<"Python", "AWS", "Docker">>), List(<<"HTML", "JavaScript", "Node.js", "React">>),
     List(<<"Kubernetes", "Docker", "Terraform", "AWS", "GCP", "Azure", "Python", "SQL", "Figma">>)}

\* job descriptions given to match_certifications
CertDescriptions ==
    {None, Str(""), Str("hello there"), Str("Scrum Master"), Str("iOS Developer needed"),
     Str("Backend developer (Python, Django)"),
     Str("DevOps Engineer: docker kubernetes aws terraform jenkins git")}

InitCerts ==
    /\ \/ /\ fn = "get_role_specific_certs"
          /\ input \in [job_role : {Str(r) : r \in CertRoles}, job_skills : CertSkills]
       \/ /\ fn = "match_certifications"
          /\ input \in [job_description : CertDescriptions, resume_text : {Str("")},
                        resume_skills : {None, List(<<"Python">>)}]
    /\ output = Pending
    /\ via = ""
    /\ locals = <<>>

RoleSpecificCerts ==
    /\ fn = "get_role_specific_certs"
    /\ Finish(List(GetRoleSpecificCerts(input.job_role.s, input.job_skills)))

Certifications ==
    /\ fn = "match_certifications"
    /\ Finish(List(MatchCertifications(input.job_description, input.resume_text,
                                       input.resume_skills)))

SpecCerts == InitCerts /\ [][RoleSpecificCerts \/ Certifications]_vars

\* ------------------------------------------------------------------------
\* A session of engine calls on the loaded tables
\* ------------------------------------------------------------------------

\* skills expanded in a session: keys, aliases, a name in no table
SessionSkills ==
    {"JavaScript", "js", " AWS ", "Amazon AWS", "ml", "machine learning", "py", "google cloud",
     "cobol", ""}

\* required skill lists of a session
SessionRequirements ==
    {List(<<>>), List(<<"Python">>), List(<<"Python", "Machine Learning", "Communication">>),
     List(<<"AWS", "js">>)}

InitTables ==
    /\ fn = "import"
    /\ input = [module |-> "industry_data"]
    /\ output = Pending
    /\ via = "session"
    /\ locals = [heap |-> LoadedTables, calls |-> 0]

\* a call of the session returns: r holds the heap after the call and the result
SessionReturn(function, arguments, r) ==
    /\ fn' = function
    /\ input' = arguments
    /\ output' = r.result
    /\ locals' = [heap |-> r.heap, calls |-> locals.calls + 1]
    /\ UNCHANGED via

CallExpandAliases ==
    /\ via = "session"
    /\ locals.calls < MaxCalls
    /\ \E skill \in SessionSkills :
        SessionReturn("expand_skill_with_aliases", [skill |-> Str(skill)],
                      ExpandInHeap(locals.heap, skill, ObjectOf("result", locals.calls + 1)))

CallSkillGaps ==
    /\ via = "session"
    /\ locals.calls < MaxCalls
    /\ \E job_requirements \in SessionRequirements :
        SessionReturn("get_skill_gaps",
                      [resume_skills |-> List(<<"Git">>), job_requirements |-> job_requirements],
                      SkillGapsInHeap(locals.heap, List(<<"Git">>), job_requirements,
                                      ObjectOf("default_resources", locals.calls + 1)))

CallKeywordDensity ==
    /\ via = "session"
    /\ locals.calls < MaxCalls
    /\ \E job_skills \in SessionRequirements \ {List(<<>>)} :
        SessionReturn("get_keyword_density",
                      [resume_text |-> Str("node and amazon aws"), job_skills |-> job_skills],
                      [heap |-> ExpandEach(locals.heap, job_skills.l),
                       result |-> GetKeywordDensity(Str("node and amazon aws"), job_skills)])

CallPredictSalary ==
    /\ via = "session"
    /\ locals.calls < MaxCalls
    /\ \E experience_years \in {Number(3), Number(16)}, industry \in {Str("Tech"), Str("Finance")} :
        SessionReturn("predict_salary",
                      [experience_years |-> experience_years, resume_skills |-> List(<<"Python", "AWS">>),
                       education |-> Str("Master"), industry |-> industry],
                      [heap |-> locals.heap,
                       result |-> Dict(PredictSalary(experience_years, List(<<"Python", "AWS">>),
                                                     Str("Master"), industry, <<0, 0, 0>>))])

NextTables == CallExpandAliases \/ CallSkillGaps \/ CallKeywordDensity \/ CallPredictSalary

SpecTables == InitTables /\ [][NextTables]_vars

\* ------------------------------------------------------------------------
\* Calls of get_ats_checklist
\* ------------------------------------------------------------------------

\* resume texts of the word counts the length check tells apart
LengthTexts ==
    {Str(Words(n)) : n \in {0, MinWarnWords - 1, MinWarnWords, MinPassWords - 1, MinPassWords,
                            MaxPassWords, MaxPassWords + 1, LongWarnWords, LongWarnWords + 1}}

\* short resume texts with and without contact details, sections and action verbs
ChecklistTexts ==
    {None, Str(""), Str("a@b.co 555-123.4567 linkedin.com/in/jo"),
     Str("Experience\nLed a team. Developed tools.\nEducation\nSkills\na@b.co"),
     Str("led built led built improved skills"), Str("work history")}

\* skill lists of the sizes the skills check tells apart
ChecklistSkillLists ==
    {List(Prefix(<<"Python", "SQL", "Git", "AWS", "Docker", "Java", "React", "Linux">>, n)) :
        n \in {0, 4, 5, 7, 8}}

InitChecklist ==
    /\ fn = "get_ats_checklist"
    /\ input \in [resume_text : LengthTexts, resume_skills : {List(<<>>)},
                  experience : {None}, education : {Str("Bachelor")}]
             \cup [resume_text : ChecklistTexts, resume_skills : ChecklistSkillLists,
                   experience : {None, Number(0), Number(3)},
                   education : {Str("Bachelor"), Str("Not Mentioned")}]
    /\ output = Pending
    /\ via = ""
    /\ locals = <<>>

\* the checklist of a call is handed back or its exception raised, the word
\* count of the text kept as a local
AtsChecklist ==
    /\ fn = "get_ats_checklist"
    /\ output = Pending
    /\ output' = GetAtsChecklist(input.resume_text, input.resume_skills, input.experience,
                                 input.education)
    /\ via' = IF IsStr(input.resume_text) THEN "return" ELSE "raise"
    /\ locals' = [word_count |-> IF IsStr(input.resume_text) THEN WordCount(input.resume_text.s) ELSE 0]
    /\ UNCHANGED <<fn, input>>

SpecChecklist == InitChecklist /\ [][AtsChecklist]_vars

\* ------------------------------------------------------------------------
\* Calls of get_skill_gaps
\* ------------------------------------------------------------------------

\* required skills: technical with and without premium, with and without a learning
\* path, soft skills with a premium, and a name of no table
GapSkills ==
    {"Python", "AWS", "SQL", "JavaScript", "Kubernetes", "Machine Learning", "Git",
     "Leadership", "Communication", "Database Design"}

\* a requirement list long enough for the cap of the result
ManyGapSkills ==
    <<"Python", "AWS", "SQL", "JavaScript", "Kubernetes", "Machine Learning", "Git",
      "Leadership", "Docker", "Database Design">>

InitGaps ==
    /\ fn = "get_skill_gaps"
    /\ input \in [resume_skills : {List(<<>>), List(<<"python ", "Git">>)},
                  job_requirements : {List(q) : q \in SeqsUpTo(GapSkills, MaxGapSkills)}
                                     \cup {List(ManyGapSkills), Str("python and aws")}]
    /\ output = Pending
    /\ via = ""
    /\ locals = <<>>

\* the gaps are handed back; the missing skills are kept as locals
ReturnGaps(r) ==
    /\ output' = List(r.result)
    /\ via' = "return"
    /\ locals' = r.locals

SkillGaps ==
    /\ fn = "get_skill_gaps"
    /\ output = Pending
    /\ ReturnGaps(GetSkillGaps(input.resume_skills, input.job_requirements))
    /\ UNCHANGED <<fn, input>>

SpecGaps == InitGaps /\ [][SkillGaps]_vars

\* ------------------------------------------------------------------------
\* Runs of the application's modes
\* ------------------------------------------------------------------------

\* uploaded documents: one PdfReader cannot read, one without pages, one whose
\* pages give no text, and two resumes, the first with a page that raises
Documents ==
    {CorruptPdf("corrupt.pdf", "EOF marker not found"),
     ReadablePdf("empty.pdf", <<>>),
     ReadablePdf("scan.pdf", <<Str(" "), None>>),
     ReadablePdf("senior.pdf",
                 <<Str("Senior engineer, 9 years of experience\nSkills: Python, AWS, Docker, React, SQL, Git"),
                   Raised("KeyError"),
                   Str("Education: MS\na@b.co ")>>),
     ReadablePdf("junior.pdf", <<Str("Junior developer\njs and teamwork")>>)}

\* what the job description box can hold
JobDescriptions ==
    {"", "Python developer", "We need a Python developer with AWS and Docker skills"}

\* the documents uploaded to the batch comparison
BatchDocuments == {file \in Documents : file.name # "empty.pdf"}

\* what the job description box of the batch comparison can hold
BatchDescriptions == {"", "We need a Python developer with AWS and Docker skills"}

\* what the custom skills box can hold
CustomInputs == {"", "Kotlin, js ,Excel"}

\* the tools of the Advanced Analytics mode that take a resume
ResumeTools ==
    {"resume_health_score", "career_trajectory", "competitive_analysis",
     "learning_recommendations"}

InitApp ==
    /\ \/ /\ fn = "single_resume_analysis"
          /\ input \in [uploaded_file : {None} \cup Documents,
                        job_description : JobDescriptions,
                        custom_skills_input : CustomInputs]
       \/ /\ fn = "batch_resume_comparison"
          /\ input \in [uploaded_files : SeqsUpTo(BatchDocuments, MaxBatchFiles),
                        job_description : BatchDescriptions,
                        custom_skills_input : {""}]
       \/ /\ fn \in ResumeTools
          /\ input \in [uploaded_file : {None} \cup Documents,
                        job_desc : JobDescriptions]
    /\ output = Pending
    /\ via = ""
    /\ locals = <<>>

\* nothing is analysed: the mode shows its form
ShowForm ==
    /\ output' = Dict([shown |-> "form"])
    /\ via' = "idle"
    /\ UNCHANGED <<fn, input, locals>>

\* resume_text = extract_text_from_pdf(uploaded_file); failed says that the text
\* is one of the function's error returns, analysed lists the extraction and
\* scoring functions called on the text since
TextExtracted(extracted) ==
    /\ locals' = [resume_text |-> extracted.text, failed |-> extracted.via # "text",
                  analysed |-> <<>>]
    /\ via' = "extracted"
    /\ UNCHANGED <<fn, input, output>>

\* the mode shows what it computed by the calls on the resume text
ShowAnalysis(result, calls) ==
    /\ output' = Dict(result)
    /\ locals' = [locals EXCEPT !.analysed = calls]
    /\ via' = "analysis"
    /\ UNCHANGED <<fn, input>>

\* single resume analysis: the form is shown until a resume and a job description
\* of more than 20 characters are there, then the text is extracted
SingleUpload ==
    /\ fn = "single_resume_analysis"
    /\ via = ""
    /\ IF input.uploaded_file = None \/ input.job_description = ""
          \/ Len(Strip(input.job_description)) <= 20
       THEN ShowForm
       ELSE TextExtracted(ExtractTextFromPdf(input.uploaded_file))

\* single resume analysis: a text that starts with the error marker is shown as
\* the error, any other text is analysed
SingleShow ==
    /\ fn = "single_resume_analysis"
    /\ via = "extracted"
    /\ IF StartsWith(locals.resume_text, ErrorMarker)
       THEN /\ output' = Dict([shown |-> "error", message |-> locals.resume_text])
            /\ via' = "error"
            /\ UNCHANGED <<fn, input, locals>>
       ELSE ShowAnalysis(SingleAnalysis(locals.resume_text, CustomSkills(input.custom_skills_input),
                                        input.job_description),
                         SingleCalls)

\* batch comparison: with documents and a job description the job skills are
\* extracted and the loop starts
BatchStart ==
    /\ fn = "batch_resume_comparison"
    /\ via = ""
    /\ IF input.uploaded_files = <<>> \/ input.job_description = ""
       THEN ShowForm
       ELSE /\ locals' = [i |-> 0,
                          job_skills_batch |-> JobSkillsBatch(input.job_description),
                          custom_skills |-> CustomSkills(input.custom_skills_input),
                          ranking_data |-> <<>>,
                          resume_text |-> "", failed |-> FALSE, analysed |-> <<>>,
                          resume_skills |-> <<>>, experience |-> 0]
            /\ via' = "loop"
            /\ UNCHANGED <<fn, input, output>>

\* the turn of the loop for a text that does not start with the error marker
ScoredTurnDone(extracted, turn) ==
    locals' = [locals EXCEPT !.i = @ + 1,
                             !.ranking_data = Append(@, turn.row),
                             !.resume_text = extracted.text,
                             !.failed = extracted.via # "text",
                             !.analysed = BatchCalls,
                             !.resume_skills = turn.resume_skills,
                             !.experience = turn.experience]

\* one turn of the loop, for the document file with the text extracted from it
TurnDone(file, extracted) ==
    IF StartsWith(extracted.text, ErrorMarker)
    THEN locals' = [locals EXCEPT !.i = @ + 1,
                                  !.ranking_data = @ \o FailedRows(file.name),
                                  !.resume_text = extracted.text,
                                  !.failed = extracted.via # "text",
                                  !.analysed = <<>>]
    ELSE ScoredTurnDone(extracted,
                        ScoredTurn(file.name, extracted.text, locals.custom_skills,
                                   locals.job_skills_batch))

\* batch comparison: one turn of the loop over the uploaded documents
BatchTurn ==
    /\ fn = "batch_resume_comparison"
    /\ via = "loop"
    /\ locals.i < Len(input.uploaded_files)
    /\ TurnDone(input.uploaded_files[locals.i + 1],
                ExtractTextFromPdf(input.uploaded_files[locals.i + 1]))
    /\ UNCHANGED <<fn, input, output, via>>

\* batch comparison: after the loop the rows are ranked by ATS score
BatchRank ==
    /\ fn = "batch_resume_comparison"
    /\ via = "loop"
    /\ locals.i = Len(input.uploaded_files)
    /\ \E df \in Rankings(locals.ranking_data) : output' = List(df)
    /\ via' = "ranked"
    /\ UNCHANGED <<fn, input, locals>>

\* a tool of the Advanced Analytics mode: the uploader is shown until a resume is
\* there, then the text is extracted
ToolUpload ==
    /\ fn \in ResumeTools
    /\ via = ""
    /\ IF input.uploaded_file = None THEN ShowForm
       ELSE TextExtracted(ExtractTextFromPdf(input.uploaded_file))

ToolHealth ==
    /\ fn = "resume_health_score"
    /\ via = "extracted"
    /\ ShowAnalysis(HealthScore(locals.resume_text), HealthCalls)

ToolTrajectory ==
    /\ fn = "career_trajectory"
    /\ via = "extracted"
    /\ ShowAnalysis(CareerTrajectory(locals.resume_text), TrajectoryCalls)

ToolCompetitive ==
    /\ fn = "competitive_analysis"
    /\ via = "extracted"
    /\ ShowAnalysis(CompetitiveAnalysis(locals.resume_text), CompetitiveCalls)

ToolLearning ==
    /\ fn = "learning_recommendations"
    /\ via = "extracted"
    /\ ShowAnalysis(LearningRecommendations(locals.resume_text, input.job_desc), LearningCalls)

NextApp ==
    \/ SingleUpload \/ SingleShow
    \/ BatchStart \/ BatchTurn \/ BatchRank
    \/ ToolUpload \/ ToolHealth \/ ToolTrajectory \/ ToolCompetitive \/ ToolLearning

SpecApp == InitApp /\ [][NextApp]_vars

\* ------------------------------------------------------------------------
\* The library as a whole: one call of one of its functions
\* ------------------------------------------------------------------------

Init ==
    \/ InitSkills \/ InitRole \/ InitJob \/ InitMatch \/ InitQuality \/ InitSalary
    \/ InitAliases \/ InitExtraction \/ InitReadiness \/ InitRerun \/ InitGaps \/ InitChecklist \/ InitCerts \/ InitTables
    \/ InitApp

Next ==
    \/ ExtractSkills
    \/ DetectRole
    \/ ExtractRequirements
    \/ Match
    \/ WeightedMatch
    \/ AnalyzeQuality
    \/ Salary
    \/ ExpandAliases
    \/ NextExtraction
    \/ InterviewReadiness
    \/ FirstRun
    \/ SecondRun
    \/ SkillGaps
    \/ AtsChecklist
    \/ RoleSpecificCerts
    \/ Certifications
    \/ NextTables
    \/ NextApp

Spec == Init /\ [][Next]_vars

\* ------------------------------------------------------------------------
\* Properties of extract_skills
\* ------------------------------------------------------------------------

\* the characters of a word
WordSet == LowerSet \cup UpperSet \cup DigitSet

\* p occurs in s as a whole token: not inside a longer word
OccursAsToken(s, p) ==
    \E i \in Occurrences(s, p) :
        /\ i = 1 \/ CharAt(s, i - 1) \notin WordSet
        /\ i + Len(p) > Len(s) \/ CharAt(s, i + Len(p)) \notin WordSet

Returned(f) == fn = f /\ output # Pending

\* C1: extract_skills reports a candidate skill only if its normalized name or one
\* of its aliases occurs in the text as a whole token, never merely as part of a
\* longer word (extract_skills("google", ["Go"]) is empty)
C1_WordBoundarySafe ==
    (Returned("extract_skills") /\ IsStr(input.text)) =>
        \A k \in 1..Len(output.l) :
            \E name \in Range(ExpandSkillWithAliases(output.l[k])) :
                OccursAsToken(Lower(input.text.s), name)

\* the skills of the taxonomy
Taxonomy == Range(TECHNICAL_SKILLS) \cup Range(SOFT_SKILLS) \cup Range(CREATIVE_SKILLS)

\* the aliases registered for the skill S in the alias table
AliasNamesOf(S) ==
    UNION {Range(SKILL_ALIASES[i].aliases) :
               i \in {j \in 1..Len(SKILL_ALIASES) : SKILL_ALIASES[j].key = Lower(S)}}

\* p occurs in s as a token delimited by whitespace or the ends of the text
WhitespaceDelimited(s, p) ==
    \E i \in Occurrences(s, p) :
        /\ i = 1 \/ CharAt(s, i - 1) \in WhiteSet
        /\ i + Len(p) > Len(s) \/ CharAt(s, i + Len(p)) \in WhiteSet

\* the candidates extract_skills looks for
CandidatesOf(skills) ==
    IF skills = None THEN Range(TECHNICAL_SKILLS) \cup Range(SOFT_SKILLS) ELSE Range(skills.l)

\* C12: match soundness: extract_skills reports a candidate skill S of the taxonomy
\* whenever the text contains S's name (case-insensitively), and whenever the text
\* is an alias of S or contains that alias as a whitespace-delimited token
C12_MatchSoundness ==
    (Returned("extract_skills") /\ IsStr(input.text)) =>
        \A S \in CandidatesOf(input.skills) \cap Taxonomy :
            (\/ Contains(Lower(input.text.s), Lower(S))
             \/ \E a \in AliasNamesOf(S) :
                    input.text.s = a \/ WhitespaceDelimited(input.text.s, a))
                => S \in Range(output.l)

\* ------------------------------------------------------------------------
\* Properties of expand_skill_with_aliases
\* ------------------------------------------------------------------------

\* the normalized skills
NormalizedSkills == {x \in AliasSkills : NormalizeSkill(x) = x}

\* the groups of the alias table: a key with its aliases
AliasGroups ==
    {{SKILL_ALIASES[i].key} \cup Range(SKILL_ALIASES[i].aliases) : i \in 1..Len(SKILL_ALIASES)}

\* C13: over the normalized skills the expansion is reflexive and symmetric (b is in
\* the expansion of a exactly when a is in the expansion of b): a key expands to
\* itself and all its aliases, an alias to its key and its siblings, and a skill
\* absent from the alias table to the singleton of itself
C13_AliasSymmetry ==
    (Returned("expand_skill_with_aliases") /\ input.skill.s \in NormalizedSkills) =>
        /\ input.skill.s \in Range(output.l)
        /\ \A b \in NormalizedSkills :
               b \in Range(output.l) <=> input.skill.s \in Range(ExpandSkillWithAliases(b))
        /\ \A g \in AliasGroups : input.skill.s \in g => Range(output.l) = g
        /\ input.skill.s \notin AliasTableNames => output.l = <<input.skill.s>>

\* an alias has been expanded to a list that holds its key and a sibling
C13_Witness ==
    /\ Returned("expand_skill_with_aliases")
    /\ input.skill.s = "nodejs"
    /\ {"javascript", "js"} \subseteq Range(output.l)

\* ------------------------------------------------------------------------
\* Properties of the extraction, keyword density and readability functions
\* ------------------------------------------------------------------------

\* a resume text that is absent, empty or not a string
DegenerateText(v) == ~IsStr(v) \/ v.s = ""

\* the empty or zero result of a function of one text
EmptyResultOf(f) ==
    IF f = "extract_experience" THEN Number(0)
    ELSE IF f = "extract_education" THEN Str("Not Mentioned")
    ELSE IF f = "extract_contact_info" THEN Dict([email |-> None, phone |-> None, linkedin |-> None])
    ELSE Dict([word_count |-> 0, char_count |-> 0, reading_time_mins |-> 0,
               length_ok |-> FALSE, suggestion |-> "Add resume content."])

\* C14: given an absent, empty or non-string resume text, or an empty or absent
\* skill list, extract_experience, extract_education, extract_contact_info,
\* get_readability_stats and get_keyword_density return their empty or zero result
\* and never raise; get_keyword_density(text, []) returns found = [], missing = []
\* and score_pct = 0
C14_GracefulDegradation ==
    output # Pending =>
        /\ (fn \in {"extract_experience", "extract_education", "extract_contact_info"}
            /\ DegenerateText(input.text)) => output = EmptyResultOf(fn)
        /\ (fn = "get_readability_stats" /\ DegenerateText(input.resume_text))
               => output = EmptyResultOf(fn)
        /\ (fn = "get_keyword_density"
            /\ (DegenerateText(input.resume_text) \/ ~Truthy(input.job_skills)))
               => /\ output.tag = "dict"
                  /\ output.d.found = <<>>
                  /\ output.d.score_pct = 0
                  /\ input.job_skills = List(<<>>) => output.d.missing = <<>>

\* the least whole number of minutes that holds word_count words at 200 words a minute
MinutesRoundedUp(word_count) == (word_count + 199) \div 200

\* C27: for every non-empty resume text the reading time reported by
\* get_readability_stats is the word count divided by 200, rounded up to the next
\* whole minute, and at least 1
C27_ReadingTimeRoundedUp ==
    (Returned("get_readability_stats") /\ IsStr(input.resume_text) /\ input.resume_text.s # "") =>
        /\ output.d.reading_time_mins >= 1
        /\ output.d.reading_time_mins =
               (IF MinutesRoundedUp(output.d.word_count) > 1
                THEN MinutesRoundedUp(output.d.word_count) ELSE 1)

\* ------------------------------------------------------------------------
\* Properties of the application's modes
\* ------------------------------------------------------------------------

\* did text extraction fail on the document
ExtractionFails(file) == ExtractTextFromPdf(file).via # "text"

\* a row whose scores and counts are all 0
AllZero(row) ==
    /\ row.ATS_Score = 0
    /\ row.Job_Match = 0
    /\ row.Quality = 0
    /\ row.Matched_Skills = 0
    /\ row.Total_Skills = 0

\* C15: the batch comparison adds exactly one row for every document it has gone
\* through, so that after the loop the ranking has as many rows as documents were
\* uploaded, whichever of them fail text extraction; the row of a failed document
\* has the ATS score, match percentage, quality percentage, matched-skill count and
\* total-skill count 0, and the documents after it still get their rows
C15_BatchRowPerDocument ==
    (fn = "batch_resume_comparison" /\ via \in {"loop", "ranked"}) =>
        /\ Len(locals.ranking_data) = locals.i
        /\ \A k \in 1..locals.i :
               /\ locals.ranking_data[k].Resume = input.uploaded_files[k].name
               /\ ExtractionFails(input.uploaded_files[k]) => AllZero(locals.ranking_data[k])
        /\ via = "ranked" =>
               /\ Len(locals.ranking_data) = Len(input.uploaded_files)
               /\ Len(output.l) = Len(input.uploaded_files)

\* three documents were ranked, the second of which failed text extraction while
\* the two others were scored
C15_Witness ==
    /\ fn = "batch_resume_comparison"
    /\ via = "ranked"
    /\ Len(input.uploaded_files) = 3
    /\ ~ExtractionFails(input.uploaded_files[1])
    /\ ExtractionFails(input.uploaded_files[2])
    /\ ~ExtractionFails(input.uploaded_files[3])
    /\ Len(output.l) = 3
    /\ AllZero(locals.ranking_data[2])
    /\ locals.ranking_data[3].Quality > 0

\* C16: when text extraction returned one of its error strings, no extraction or
\* scoring function is called on that string afterwards, in the single resume
\* analysis, the batch comparison and every Advanced Analytics tool that takes a
\* resume
C16_SentinelNeverAnalysed ==
    (fn \in {"single_resume_analysis", "batch_resume_comparison"} \cup ResumeTools
     /\ via \in {"extracted", "analysis", "error", "loop", "ranked"}) =>
        (locals.failed => locals.analysed = <<>>)

\* the ATS score of the formula, in thousandths: quality * 0.5 + skillFactor * 0.25
\* + experienceFactor * 0.25 with skillFactor = min(100, count / 10 * 100) and
\* experienceFactor = min(100, years / 8 * 100)
CompositeAts(quality, count, years) ==
    500 * quality + 250 * Min({100, 10 * count}) + Min({25000, 3125 * years})

\* C17: every ATS score shown for an extracted document, by the single resume
\* analysis and in a row of the batch comparison, is quality * 0.5 + skillFactor *
\* 0.25 + experienceFactor * 0.25 and lies between 0 and 100
C17_AtsComposite ==
    /\ (fn = "single_resume_analysis" /\ via = "analysis") =>
           /\ output.d.ats_score = CompositeAts(output.d.quality_score,
                                                output.d.technical_skills_count,
                                                output.d.experience)
           /\ output.d.ats_score >= 0 /\ output.d.ats_score <= 100000
    /\ (fn = "batch_resume_comparison" /\ via = "loop" /\ locals.analysed # <<>>) =>
           /\ locals.ranking_data[locals.i].ATS_Score
                  = CompositeAts(locals.ranking_data[locals.i].Quality,
                                 TechnicalSkillsCount(locals.resume_skills),
                                 locals.experience)
           /\ locals.ranking_data[locals.i].ATS_Score >= 0
           /\ locals.ranking_data[locals.i].ATS_Score <= 100000

\* ------------------------------------------------------------------------
\* Properties of get_interview_readiness_score
\* ------------------------------------------------------------------------

\* C19: the score of get_interview_readiness_score is the sum of the points of
\* four bands, experience (at most 30), skill match (at most 40), education (at
\* most 15) and technical depth (at most 15), so it is at most 100; the level is
\* Excellent exactly from 85 on, Very Good from 75 up to 85, Good from 60 up to
\* 75 and Fair below
C19_ReadinessBands ==
    Returned("get_interview_readiness_score") =>
        /\ locals.experience \in 0..30
        /\ locals.match \in 0..40
        /\ locals.education \in 0..15
        /\ locals.depth \in 0..15
        /\ output.d.score = locals.experience + locals.match + locals.education + locals.depth
        /\ output.d.score <= 100
        /\ output.d.readiness_level = "Excellent" <=> output.d.score >= 85
        /\ output.d.readiness_level = "Very Good" <=> (output.d.score >= 75 /\ output.d.score < 85)
        /\ output.d.readiness_level = "Good" <=> (output.d.score >= 60 /\ output.d.score < 75)
        /\ output.d.readiness_level = "Fair" <=> output.d.score < 60

\* a call has returned a score of exactly 85, the level Excellent, from the
\* bands 30, 30, 15 and 10
C19_Witness ==
    /\ Returned("get_interview_readiness_score")
    /\ output.d.score = 85
    /\ output.d.readiness_level = "Excellent"
    /\ locals = [experience |-> 30, match |-> 30, education |-> 15, depth |-> 10]

\* ------------------------------------------------------------------------
\* Properties of a call made in two runs
\* ------------------------------------------------------------------------

\* C20: a call made with the same arguments in two runs of the program returns
\* the same result in both, the order of list elements included: the missing list
\* of calculate_match, the skills get_improvement_suggestions names and the
\* phrases of get_tailoring_phrases are those of the first run
C20_SameResultEveryRun ==
    (fn \in RerunFunctions /\ via = "second run") => output = locals.first

\* ------------------------------------------------------------------------
\* Properties of get_skill_gaps
\* ------------------------------------------------------------------------

\* the skill-premium table has an entry for the normalized skill
CarriesPremium(skill) == \E i \in 1..Len(SKILL_MULTIPLIERS) : SKILL_MULTIPLIERS[i].skill = skill

\* the normalized skill is a name of the technical taxonomy
InTaxonomy(skill) == \E i \in 1..Len(TECHNICAL_SKILLS) : NormalizeSkill(TECHNICAL_SKILLS[i]) = skill

\* C24 as stated: every gap returned by get_skill_gaps has the priority Critical
\* if and only if its skill has an entry in the skill-premium table, and High
\* otherwise
C24_CriticalIffPremium ==
    Returned("get_skill_gaps") =>
        \A k \in 1..Len(output.l) :
            /\ output.l[k].priority \in {"Critical", "High"}
            /\ output.l[k].priority = "Critical" <=> CarriesPremium(locals.missing[k])

\* C24 amended: every gap returned by get_skill_gaps has the priority Critical
\* if and only if its skill is a skill of the technical taxonomy that has an entry
\* in the skill-premium table, and High otherwise
C24_CriticalIffTechnicalPremium ==
    Returned("get_skill_gaps") =>
        \A k \in 1..Len(output.l) :
            /\ output.l[k].priority \in {"Critical", "High"}
            /\ output.l[k].priority = "Critical" <=>
                   (InTaxonomy(locals.missing[k]) /\ CarriesPremium(locals.missing[k]))

\* gaps have been returned for AWS (technical, premium) and Leadership (premium,
\* not technical): the first is Critical, the second High
C24_Witness ==
    /\ Returned("get_skill_gaps")
    /\ locals.missing = <<"aws", "leadership">>
    /\ output.l[1].priority = "Critical"
    /\ output.l[2].priority = "High"

\* the table entry of a normalized skill, whatever the capitalisation of its key
EntryOf(skill) == {i \in 1..Len(TECHNICAL_SKILLS) : NormalizeSkill(TECHNICAL_SKILLS[i]) = skill}

LearningPathOf(skill) == {i \in 1..Len(LEARNING_PATHS) : NormalizeSkill(LEARNING_PATHS[i].key) = skill}

\* C25: a gap of a skill that has a taxonomy entry carries that entry's demand and
\* growth, a gap of a skill that has a learning path carries that path's timeline
\* and resources, whatever the capitalisation of the skill's name; the defaults
\* are used only for a skill without entry
C25_GapCarriesTableEntry ==
    Returned("get_skill_gaps") =>
        \A k \in 1..Len(output.l) :
            /\ EntryOf(locals.missing[k]) # {} =>
                   /\ output.l[k].demand = TechnicalSkillData[Min(EntryOf(locals.missing[k]))].demand
                   /\ output.l[k].growth = TechnicalSkillData[Min(EntryOf(locals.missing[k]))].growth
            /\ LearningPathOf(locals.missing[k]) # {} =>
                   /\ output.l[k].timeline = LEARNING_PATHS[Min(LearningPathOf(locals.missing[k]))].timeline
                   /\ output.l[k].resources = LEARNING_PATHS[Min(LearningPathOf(locals.missing[k]))].entry

\* ------------------------------------------------------------------------
\* Properties of detect_job_role
\* ------------------------------------------------------------------------

\* the roles of the technical tables
TechRoles ==
    {exact_phrases_tech[g].role : g \in 1..Len(exact_phrases_tech)}
        \cup {role_patterns[g].role : g \in 1..Len(role_patterns)}

\* the whitespace-collapsed, lower-cased job description
Collapsed(jd) == CollapseWhitespace(Strip(Lower(jd)))

\* the groups of a phrase table that have a phrase, as registered, in the text
GroupsPresent(table, text) ==
    {g \in 1..Len(table) : \E k \in 1..Len(table[g].phrases) : Contains(text, table[g].phrases[k])}

\* the groups of a phrase table that have a phrase, trimmed of surrounding
\* whitespace, in the text
GroupsPresentTrimmed(table, text) ==
    {g \in 1..Len(table) : \E k \in 1..Len(table[g].phrases) : Contains(text, Strip(table[g].phrases[k]))}

\* the number of a keyword group's keywords in the text
KeywordCount(g, text) ==
    Cardinality({k \in 1..Len(role_patterns[g].phrases) : Contains(text, role_patterns[g].phrases[k])})

\* the first registered keyword group with the highest count above zero, 0 if none
BestKeywordGroup(text) ==
    LET scored == {g \in 1..Len(role_patterns) : KeywordCount(g, text) > 0}
    IN IF scored = {} THEN 0
       ELSE Min({g \in scored : \A h \in scored : KeywordCount(h, text) <= KeywordCount(g, text)})

RoleReturned == Returned("detect_job_role") /\ IsStr(input.job_description) /\ input.job_description.s # ""

\* C2 as stated: a text that contains a phrase of a non-technical group returns
\* the first group, in registered order, that has a phrase in the text, and never
\* a technical role
C2_FirstNonTechGroupWins ==
    RoleReturned =>
        LET present == GroupsPresent(exact_phrases_non_tech, Collapsed(input.job_description.s))
        IN present # {} =>
            /\ output.s = exact_phrases_non_tech[Min(present)].role
            /\ output.s \notin TechRoles

\* C2 amended: a text that contains a phrase, trimmed of surrounding whitespace,
\* of a non-technical group returns the first group, in registered order, that has
\* a trimmed phrase in the text, and never a technical role, whatever technical
\* phrases or keywords the text also contains
C2_FirstTrimmedNonTechGroupWins ==
    RoleReturned =>
        LET present == GroupsPresentTrimmed(exact_phrases_non_tech, Collapsed(input.job_description.s))
        IN present # {} =>
            /\ output.s = exact_phrases_non_tech[Min(present)].role
            /\ output.s \notin TechRoles

\* a description with "digital marketing manager", "analytics", "platform" and
\* technical keywords has been classified as Digital Marketing
C2_Witness ==
    /\ RoleReturned
    /\ Contains(Collapsed(input.job_description.s), "digital marketing manager")
    /\ Contains(Collapsed(input.job_description.s), "analytics")
    /\ Contains(Collapsed(input.job_description.s), "platform")
    /\ Contains(Collapsed(input.job_description.s), "devops engineer")
    /\ Contains(Collapsed(input.job_description.s), "kubernetes")
    /\ output.s = "Digital Marketing"

\* C3 as stated: a text with no non-technical phrase that contains a technical
\* exact phrase returns the first technical phrase group having a phrase present
C3_TechPhraseBeforeKeywords ==
    RoleReturned =>
        LET text == Collapsed(input.job_description.s)
            tech == GroupsPresent(exact_phrases_tech, text)
        IN (GroupsPresent(exact_phrases_non_tech, text) = {} /\ tech # {}) =>
               output.s = exact_phrases_tech[Min(tech)].role

\* C3 amended: the stages decide in the order non-technical phrases (trimmed of
\* surrounding whitespace), technical exact phrases, keyword counts, title
\* extraction, fallback, a later stage only when every earlier one found nothing:
\* with no trimmed non-technical phrase, a technical exact phrase returns the first
\* technical phrase group having a phrase present whatever the keyword counts;
\* with neither, the keyword group with the highest count (the first registered on
\* a tie) is returned; only with no keyword either is the result an extracted
\* title or the fallback label
C3_StageOrder ==
    RoleReturned =>
        LET text == Collapsed(input.job_description.s)
            nontech == GroupsPresentTrimmed(exact_phrases_non_tech, text)
            tech == GroupsPresent(exact_phrases_tech, text)
            best == BestKeywordGroup(text)
        IN /\ (via = "non_tech_phrase") = (nontech # {})
           /\ (via = "tech_phrase") = (nontech = {} /\ tech # {})
           /\ (via = "keywords") = (nontech = {} /\ tech = {} /\ best # 0)
           /\ (via \in {"title", "fallback"}) = (nontech = {} /\ tech = {} /\ best = 0)
           /\ (nontech = {} /\ tech # {}) => output.s = exact_phrases_tech[Min(tech)].role
           /\ (nontech = {} /\ tech = {} /\ best # 0) => output.s = role_patterns[best].role
           /\ (via = "fallback") = (output.s = "Other Role")

\* a description naming a software engineer before a DevOps engineer, with more
\* backend keywords than any other, has been classified by the first registered
\* technical phrase group
C3_Witness ==
    /\ RoleReturned
    /\ Contains(Collapsed(input.job_description.s), "software engineer, devops engineer")
    /\ BestKeywordGroup(Collapsed(input.job_description.s)) = 3
    /\ via = "tech_phrase"
    /\ output.s = "DevOps Engineer"

\* the text of a job description, the empty text for an absent one
DescriptionText(job_description) ==
    IF IsStr(job_description) THEN Collapsed(job_description.s) ELSE ""

\* no stage of detect_job_role finds anything in the text: no non-technical phrase
\* (trimmed of surrounding whitespace), no technical exact phrase, no keyword and
\* no acceptable title
NothingDetected(text) ==
    /\ GroupsPresentTrimmed(exact_phrases_non_tech, text) = {}
    /\ GroupsPresent(exact_phrases_tech, text) = {}
    /\ BestKeywordGroup(text) = 0
    /\ TitleHits(text) = {}

\* C22: for every job description, the empty and the absent one included, in
\* which no phrase and no keyword is present and from which no acceptable title
\* can be extracted, detect_job_role returns the label Other Role and never a
\* technical role
C22_FallbackOtherRole ==
    (Returned("detect_job_role") /\ NothingDetected(DescriptionText(input.job_description))) =>
        /\ output = Str("Other Role")
        /\ output.s \notin TechRoles

\* ------------------------------------------------------------------------
\* Properties of extract_job_requirements
\* ------------------------------------------------------------------------

\* the roles of the non-technical phrase groups
NonTechRoles == {exact_phrases_non_tech[g].role : g \in 1..Len(exact_phrases_non_tech)}

\* the normalized names of the technical skill taxonomy
TechnicalNorms == {NormalizeSkill(TECHNICAL_SKILLS[i]) : i \in 1..Len(TECHNICAL_SKILLS)}

\* extract_job_requirements has returned past its minimum-length guard
RequirementsReturned == Returned("extract_job_requirements") /\ via # "too_short"

\* C4: when the detected role is a creative/non-technical role (a non-technical
\* phrase group or a free-text title), every skill of the result was extracted
\* from the job-description text; the only addition allowed is the role name when
\* nothing was extracted and the role is not the fallback
C4_NonTechOnlyExtracted ==
    (RequirementsReturned /\ locals.detected_role \notin TechRoles) =>
        Range(output.l) \subseteq
            locals.detected_skills \cup
                (IF locals.detected_skills = {} /\ locals.detected_role # "Other Role"
                 THEN {locals.detected_role} ELSE {})

\* C5: when the detected role is not a recognized technical role, the result
\* holds no skill of the technical skill taxonomy that was not itself extracted
\* from the job-description text
C5_NoTechnicalLeak ==
    (RequirementsReturned /\ locals.detected_role \notin TechRoles) =>
        \A k \in 1..Len(output.l) :
            NormalizeSkill(output.l[k]) \in TechnicalNorms => output.l[k] \in locals.detected_skills

\* a video-editor description that names Python: the role's defaults have been
\* merged and the one technical skill of the result is the extracted one
C5_Witness ==
    /\ RequirementsReturned
    /\ locals.detected_role = "Video Editor"
    /\ via = "defaults"
    /\ "Python" \in locals.detected_skills
    /\ "After Effects" \in Range(output.l) \ locals.detected_skills
    /\ {output.l[k] : k \in {n \in 1..Len(output.l) : NormalizeSkill(output.l[n]) \in TechnicalNorms}} = {"Python"}

\* the job description is absent, or has fewer than MinJobLength characters
\* once leading and trailing whitespace is taken off
TooShort(job_description) ==
    job_description = None \/ Len(Strip(job_description.s)) < MinJobLength

\* C18: for an absent job description, or one of fewer than 10 characters after
\* trimming, extract_job_requirements returns the empty list from its guard:
\* no role is detected and no default or placeholder skill is added
C18_MinimumLengthGuard ==
    (Returned("extract_job_requirements") /\ TooShort(input.job_description)) =>
        /\ output = List(<<>>)
        /\ via = "too_short"

\* a description of ten characters that names SQL, eight once trimmed, has
\* returned the empty list
C18_Witness ==
    /\ Returned("extract_job_requirements")
    /\ input.job_description = Str(" SQL devs ")
    /\ Len(input.job_description.s) = MinJobLength
    /\ output = List(<<>>)

\* the fixed default skill list of a role
RoleDefaultSkills(role) ==
    UNION {Range(role_defaults[i].skills) : i \in {n \in 1..Len(role_defaults) : role_defaults[n].role = role}}

\* a list of str in strictly ascending order
StrictlySorted(list) == \A k \in 1..(Len(list) - 1) : StrLess(list[k], list[k + 1])

\* C23: when the detected role is a recognized technical role, the result of
\* extract_job_requirements is the extracted skills together with the role's
\* default list if fewer than 6 skills were extracted, and exactly the extracted
\* skills if 6 or more were; either way it holds every extracted skill and is
\* sorted without duplicates
C23_DefaultsBelowSix ==
    (RequirementsReturned /\ locals.detected_role \in TechRoles) =>
        /\ Cardinality(locals.detected_skills) < 6 =>
               Range(output.l) = locals.detected_skills \cup RoleDefaultSkills(locals.detected_role)
        /\ Cardinality(locals.detected_skills) >= 6 => Range(output.l) = locals.detected_skills
        /\ locals.detected_skills \subseteq Range(output.l)
        /\ StrictlySorted(output.l)

\* a DevOps description that names exactly six skills, two of them outside the
\* role's defaults, has returned the six extracted skills alone
C23_Witness ==
    /\ RequirementsReturned
    /\ locals.detected_role = "DevOps Engineer"
    /\ Cardinality(locals.detected_skills) = 6
    /\ RoleDefaultSkills("DevOps Engineer") \ locals.detected_skills # {}
    /\ Range(output.l) = locals.detected_skills

\* ------------------------------------------------------------------------
\* Properties of calculate_match and calculate_weighted_match_score
\* ------------------------------------------------------------------------

\* R of a call: the normalized resume skills
ResumeNorms == {Strip(Lower(s)) : s \in Range(input.resume_skills.l)}

\* Q of a call: the normalized required skills
RequiredNorms == {Strip(Lower(s)) : s \in Range(locals.required_skills)}

\* p is n / d * 100 rounded to the nearest hundredth, p counted in hundredths
IsPercentOf(p, n, d) == 2 * (p * d - 10000 * n) \in (0 - d)..d

\* C6: calculate_match returns percentage |R n Q| / |Q| * 100 rounded to 2
\* decimals over the sets R, Q of normalized resume and required skills, the
\* matched list is the resume entries in their own casing whose normalized form is
\* in R n Q, the missing list is exactly Q - R, and an empty required list gives
\* (0, [], [])
C6_MatchFormula ==
    Returned("calculate_match") =>
        IF locals.required_skills = <<>>
        THEN output.t = [percentage |-> 0, matched |-> <<>>, missing |-> <<>>]
        ELSE /\ IsPercentOf(output.t.percentage, Cardinality(ResumeNorms \cap RequiredNorms),
                            Cardinality(RequiredNorms))
             /\ output.t.matched = SelectSeq(input.resume_skills.l,
                                           LAMBDA s : Strip(Lower(s)) \in ResumeNorms \cap RequiredNorms)
             /\ Range(output.t.missing) = RequiredNorms \ ResumeNorms
             /\ Len(output.t.missing) = Cardinality(RequiredNorms \ ResumeNorms)

\* two of three distinct required skills are met by resume entries in another
\* casing: 66.67 percent, both entries matched, one skill missing
C6_Witness ==
    /\ Returned("calculate_match")
    /\ input.resume_skills.l = <<"python ", "AWS">>
    /\ input.job_requirements = List(<<"Python", "AWS", "Git">>)
    /\ output.t = [percentage |-> 6667, matched |-> <<"python ", "AWS">>, missing |-> <<"git">>]

\* C7: for every non-empty skill list X, calculate_match(X, X) returns
\* (100.0, X, [])
C7_SelfMatch ==
    (/\ Returned("calculate_match")
     /\ input.job_requirements = input.resume_skills
     /\ input.resume_skills.l # <<>>) =>
        output.t = [percentage |-> 10000, matched |-> input.resume_skills.l, missing |-> <<>>]

\* a list holding one skill twice in two casings matched against itself
C7_Witness ==
    /\ Returned("calculate_match")
    /\ input.resume_skills.l = <<"Python", "python ">>
    /\ input.job_requirements = input.resume_skills
    /\ output.t.percentage = 10000
    /\ output.t.matched = <<"Python", "python ">>

\* the normalized forms of the entries of the matched list
MatchedNorms == {Strip(Lower(s)) : s \in Range(output.t.matched)}

\* no two entries of the resume list have the same normalized form
ResumeWithoutRepeats ==
    \A i, j \in 1..Len(input.resume_skills.l) :
        Strip(Lower(input.resume_skills.l[i])) = Strip(Lower(input.resume_skills.l[j])) => i = j

\* C29 as stated: the number of entries of calculate_match's matched list plus
\* the number of entries of its missing list is the number of distinct normalized
\* required skills, so the matched count never exceeds the required count
C29_MatchedPlusMissing ==
    Returned("calculate_match") =>
        /\ Len(output.t.matched) + Len(output.t.missing) = Cardinality(RequiredNorms)
        /\ Len(output.t.matched) <= Cardinality(RequiredNorms)

\* C29 amended: the number of distinct normalized skills among the entries of
\* the matched list plus the number of entries of the missing list is the number
\* of distinct normalized required skills; the matched list has one entry per
\* resume entry of a matched skill, so its length is that number only for a
\* resume list that repeats no skill, and is never below it
C29_MatchedSkillsPlusMissing ==
    Returned("calculate_match") =>
        /\ Cardinality(MatchedNorms) + Len(output.t.missing) = Cardinality(RequiredNorms)
        /\ Len(output.t.matched) >= Cardinality(MatchedNorms)
        /\ ResumeWithoutRepeats => Len(output.t.matched) = Cardinality(MatchedNorms)

\* a resume naming Python twice, in two casings, against the requirements Python
\* and Git: two matched entries of one skill, one missing skill, two required
C29_Witness ==
    /\ Returned("calculate_match")
    /\ input.resume_skills.l = <<"Python", "python ">>
    /\ input.job_requirements = List(<<"Python", "Git">>)
    /\ output.t.matched = <<"Python", "python ">>
    /\ output.t.missing = <<"git">>

\* the premium of a normalized skill: its entry of the table, 0 when it has none
PremiumOf(norm) ==
    IF \E i \in 1..Len(SKILL_MULTIPLIERS) : SKILL_MULTIPLIERS[i].skill = norm
    THEN SKILL_MULTIPLIERS[CHOOSE i \in 1..Len(SKILL_MULTIPLIERS) : SKILL_MULTIPLIERS[i].skill = norm].multiplier
    ELSE 0

RECURSIVE PremiumWeight(_, _)
\* the sum of (1 + premium) * 10, in tenths, over the entries of required whose
\* normalized form is in counted
PremiumWeight(required, counted) ==
    IF required = <<>> THEN 0
    ELSE (IF Strip(Lower(Head(required))) \in counted
          THEN 100 + PremiumOf(Strip(Lower(Head(required)))) ELSE 0)
         + PremiumWeight(Tail(required), counted)

\* C8: calculate_weighted_match_score weighs each required skill (1 + premium) * 10,
\* premium being the skill's entry of the premium table and 0 without an entry, and
\* returns matched weight / total weight * 100
C8_WeightByPremium ==
    (Returned("calculate_weighted_match_score") /\ locals.required_skills # <<>>) =>
        IsPercentOf(output.n, PremiumWeight(locals.required_skills, ResumeNorms),
                    PremiumWeight(locals.required_skills, RequiredNorms))

\* ------------------------------------------------------------------------
\* Properties of analyze_resume_quality
\* ------------------------------------------------------------------------

\* the stated maxima of the eight categories: length, skills, experience,
\* education, contact, sections, action verbs, metrics
CategoryMax == <<15, 15, 20, 15, 10, 10, 10, 5>>

\* analyze_resume_quality has returned for a non-empty text
Scored ==
    /\ Returned("analyze_resume_quality")
    /\ IsStr(input.resume_text)
    /\ input.resume_text.s # ""

RECURSIVE PointsOf(_, _)
\* the points of the first n categories of the call added up
PointsOf(categories, n) ==
    IF n = 0 THEN 0 ELSE categories[n].points + PointsOf(categories, n - 1)

\* C9: analyze_resume_quality returns a score in [0, 100]; for a non-empty text
\* the score is the sum of the points of the eight categories, each between 0 and
\* its stated maximum (15, 15, 20, 15, 10, 10, 10, 5), capped at 100
C9_ScoreIsCappedSum ==
    Returned("analyze_resume_quality") =>
        /\ output.t.score \in 0..100
        /\ Scored =>
            /\ Len(locals) = Len(CategoryMax)
            /\ \A i \in 1..Len(CategoryMax) : locals[i].points \in 0..CategoryMax[i]
            /\ output.t.score = IF PointsOf(locals, Len(locals)) > 100 THEN 100
                                ELSE PointsOf(locals, Len(locals))

\* a resume in the top tier of every category: each category gives its maximum
\* and the score is 100
C9_Witness ==
    /\ Scored
    /\ \A i \in 1..Len(CategoryMax) : locals[i].points = CategoryMax[i]
    /\ output.t.score = 100

\* C10 as stated: whenever at least one category is scored below its top tier,
\* the issues list is non-empty
C10_IssueWheneverBelowExcellent ==
    (Scored /\ \E i \in 1..Len(CategoryMax) : locals[i].points < CategoryMax[i]) =>
        output.t.issues # <<>>

\* the tiers that carry an improvement message: a text under 600 characters, under
\* 5 skills, under 1 year of experience, an education outside the rubric, under 2
\* contact items, under 3 required sections, under 5 action verbs, under 2 metric
\* keywords
InIssueTier ==
    \/ Len(input.resume_text.s) < 600
    \/ Len(input.resume_skills.l) < 5
    \/ input.experience < 1
    \/ input.education.s \notin {"Master", "PhD", "Bachelor", "Diploma", "High School"}
    \/ locals[5].value < 2
    \/ locals[6].value < 3
    \/ locals[7].value < 5
    \/ locals[8].value < 2

\* C10 as amended: the issues list is non-empty exactly when some category is in a
\* tier that carries an improvement message; a category in an intermediate tier
\* lowers the score without adding an issue
C10_IssueExactlyInIssueTiers ==
    Scored => (output.t.issues # <<>> <=> InIssueTier)

\* a text of 400 to 599 characters with every other category free of issues: the
\* one issue is the one about the length
C10_Witness ==
    /\ Scored
    /\ Len(input.resume_text.s) \in 400..599
    /\ Len(output.t.issues) = 1
    /\ locals[1].issues = output.t.issues
    /\ output.t.score < 100

\* ------------------------------------------------------------------------
\* Properties of predict_salary
\* ------------------------------------------------------------------------

\* C11: predict_salary returns min >= 35, avg >= 50 and max >= 70 for every
\* experience (negative, zero, very large, a text without a number), every skill
\* list, every education and every industry
C11_SalaryFloors ==
    Returned("predict_salary") =>
        /\ output.d.min >= 35
        /\ output.d.avg >= 50
        /\ output.d.max >= 70

\* an experience so far below zero that every product is under its floor: the
\* three floors themselves are returned
C11_Witness ==
    /\ Returned("predict_salary")
    /\ input.experience_years = Number(0 - 1000000)
    /\ output.d.min = 35
    /\ output.d.avg = 50
    /\ output.d.max = 70

\* the result of the same call with one more year of experience, the exact
\* halves rounded as ups says
OneYearMore(ups) ==
    PredictSalary(Number(input.experience_years.n + 1), input.resume_skills,
                  input.education, input.industry, ups)

\* C28: with the industry (an unknown one included), the skill list and the
\* education held fixed, the min, avg and max returned by predict_salary do not
\* decrease as the experience goes up from 0 to 30 years, and min <= avg <= max
\* in every result
C28_SalaryGrowsWithExperience ==
    (Returned("predict_salary") /\ input.experience_years.tag = "number") =>
        /\ output.d.min <= output.d.avg
        /\ output.d.avg <= output.d.max
        /\ input.experience_years.n \in 0..29 =>
            \A ups \in [1..3 -> {0, 1}] :
                /\ OneYearMore(ups).min >= output.d.min
                /\ OneYearMore(ups).avg >= output.d.avg
                /\ OneYearMore(ups).max >= output.d.max

\* ------------------------------------------------------------------------
\* Properties of get_ats_checklist
\* ------------------------------------------------------------------------

\* the order of the statuses: pass above warn above fail
Grade(status) == IF status = "pass" THEN 2 ELSE IF status = "warn" THEN 1 ELSE 0

\* the status of the length check in a returned checklist
LengthGrade == Grade(output.l[5].status)

\* C30: in the length check of get_ats_checklist the status (pass > warn > fail)
\* never improves as the word count moves farther from the passing band of 400 to
\* 1500 words: of two resumes above 1500 words the longer is never graded better
\* than the shorter, and of two resumes below 400 words the shorter is never
\* graded better than the longer
C30_LengthGradeMonotone ==
    (Returned("get_ats_checklist") /\ via = "return") =>
        /\ locals.word_count > MaxPassWords =>
            \A longer \in locals.word_count..(LongWarnWords + 1) :
                Grade(LengthStatus(longer)) <= LengthGrade
        /\ locals.word_count < MinPassWords =>
            \A shorter \in 0..locals.word_count :
                Grade(LengthStatus(shorter)) <= LengthGrade

\* ------------------------------------------------------------------------
\* Properties of get_role_specific_certs and match_certifications
\* ------------------------------------------------------------------------

\* no two entries of a list of certifications have the same certificate name
DistinctCerts(certs) ==
    \A i, j \in 1..Len(certs) : certs[i].cert = certs[j].cert => i = j

\* C26: for every role and every skill list, the list returned by
\* get_role_specific_certs, and the list returned by match_certifications for
\* every job description, never holds two entries with the same certificate name
\* and never has more than 6 entries, also when no skill matches the
\* certification keywords and the role's default certifications are used
C26_CertsDistinctAtMostSix ==
    (Returned("get_role_specific_certs") \/ Returned("match_certifications")) =>
        /\ Len(output.l) <= 6
        /\ DistinctCerts(output.l)

\* ------------------------------------------------------------------------
\* Properties of a session of engine calls
\* ------------------------------------------------------------------------

====
